---- MODULE Spec2Model ----
(***************************************************************************)
(* SmartCV-App: the provider client (src/llm_clients.py), the model        *)
(* discovery call, the job-description auto-fill (src/utils.py, wired to   *)
(* the form in src/app.py), the configuration file (src/config.py), the    *)
(* history file (src/storage.py) and the two generation handlers of        *)
(* src/app.py that write to it.                                            *)
(*                                                                         *)
(* A Python str is a sequence of characters, each character a one-letter   *)
(* string.  Characters outside ASCII are written by their code point:      *)
(* "U+274C" is the cross mark, "U+2705" the check mark.  Python's None is  *)
(* the value None below, which is no sequence of characters.               *)
(***************************************************************************)
EXTENDS Integers, Sequences, FiniteSets, TLC

VARIABLES
    config,         \* the config dict handed to generate_with_llm
    environ,        \* os.environ, the two credential variables of the process
    provider,       \* provider argument of the last generate_with_llm call
    backend,        \* what the selected backend did during that call
    result,         \* what that call gave back to its caller
    tags_backend,   \* what GET /api/tags did during the last discovery call
    discovery,      \* what the last get_ollama_models call gave back
    job_desc,       \* the text boxes of the form
    job_role,
    company,
    position,
    skills,
    fills,          \* auto-fill clicks since the skills box was last edited
    last_fill,      \* the arguments of the auto-fill call of the last step
    run,            \* the auto-fill clicks in a row that began on empty skills
    description,    \* argument of the last extract_job_info_from_description call
    info,           \* what that call gave back
    config_file,    \* config.json
    backup_file,    \* config.bak.json
    loaded,         \* what the last load_config call gave back
    edits,          \* edits made to config.json from outside so far
    memory_file,    \* conversation_history.json
    sess,           \* where each session's generation handler stands
    hist,           \* the history at the start, and the calls that returned
    view,           \* what the last Refresh History showed
    clock           \* generation calls started, the time of the timestamps

llmVars == << config, environ, provider, backend, result >>
discoveryVars == << tags_backend, discovery >>
formVars == << job_desc, job_role, company, position, skills, fills, last_fill, run >>
extractVars == << description, info >>
configVars == << config_file, backup_file, loaded, edits >>
historyVars == << memory_file, sess, hist, view, clock >>
vars == << llmVars, discoveryVars, formVars, extractVars, configVars, historyVars >>

(***************************************************************************)
(* Python values and str operations                                        *)
(***************************************************************************)
None == << "None" >>

\* bool(v) for v a str or None
Truthy(v) == v # None /\ v # << >>

\* a or b
Or(a, b) == IF Truthy(a) THEN a ELSE b

IsStr(v) == v # None

Min(S) == CHOOSE m \in S : \A n \in S : m <= n

\* s.find(p) + 1: the 1-based place of the first occurrence of p in s, 0 if none
Find(s, p) ==
    LET I == { i \in 1..(Len(s) - Len(p) + 1) : SubSeq(s, i, i + Len(p) - 1) = p }
    IN  IF I = {} THEN 0 ELSE Min(I)

\* p in s
Contains(s, p) == Find(s, p) # 0

\* s.startswith(p)
StartsWith(s, p) == Len(s) >= Len(p) /\ SubSeq(s, 1, Len(p)) = p

DigitChars == << "0", "1", "2", "3", "4", "5", "6", "7", "8", "9" >>

\* str(n) for an int n >= 0
RECURSIVE IntStr(_)
IntStr(n) ==
    IF n < 10 THEN << DigitChars[n + 1] >>
    ELSE IntStr(n \div 10) \o << DigitChars[(n % 10) + 1] >>

\* "".join(parts)
RECURSIVE Concat(_)
Concat(parts) ==
    IF parts = << >> THEN << >> ELSE Head(parts) \o Concat(Tail(parts))

(***************************************************************************)
(* Literals of src/config.py and src/llm_clients.py                        *)
(***************************************************************************)
\* "Claude (Anthropic)"
CLAUDE_ANTHROPIC ==
    << "C", "l", "a", "u", "d", "e", " ", "(", "A", "n", "t", "h",
       "r", "o", "p", "i", "c", ")" >>

\* "GPT (OpenAI)"
GPT_OPENAI ==
    << "G", "P", "T", " ", "(", "O", "p", "e", "n", "A", "I", ")" >>

\* "Ollama (Local)"
OLLAMA_LOCAL ==
    << "O", "l", "l", "a", "m", "a", " ", "(", "L", "o", "c", "a",
       "l", ")" >>

\* "Anthropic API key not configured"
MSG_ANTHROPIC_NO_KEY ==
    << "A", "n", "t", "h", "r", "o", "p", "i", "c", " ", "A", "P",
       "I", " ", "k", "e", "y", " ", "n", "o", "t", " ", "c", "o",
       "n", "f", "i", "g", "u", "r", "e", "d" >>

\* "OpenAI API key not configured"
MSG_OPENAI_NO_KEY ==
    << "O", "p", "e", "n", "A", "I", " ", "A", "P", "I", " ", "k",
       "e", "y", " ", "n", "o", "t", " ", "c", "o", "n", "f", "i",
       "g", "u", "r", "e", "d" >>

\* "Error calling Claude: "
ERR_CALLING_CLAUDE ==
    << "E", "r", "r", "o", "r", " ", "c", "a", "l", "l", "i", "n",
       "g", " ", "C", "l", "a", "u", "d", "e", ":", " " >>

\* "Error calling OpenAI: "
ERR_CALLING_OPENAI ==
    << "E", "r", "r", "o", "r", " ", "c", "a", "l", "l", "i", "n",
       "g", " ", "O", "p", "e", "n", "A", "I", ":", " " >>

\* "Error calling Ollama: "
ERR_CALLING_OLLAMA ==
    << "E", "r", "r", "o", "r", " ", "c", "a", "l", "l", "i", "n",
       "g", " ", "O", "l", "l", "a", "m", "a", ":", " " >>

\* "Error: Unknown model choice"
MSG_UNKNOWN_CHOICE ==
    << "E", "r", "r", "o", "r", ":", " ", "U", "n", "k", "n", "o",
       "w", "n", " ", "m", "o", "d", "e", "l", " ", "c", "h", "o",
       "i", "c", "e" >>

\* the prefix of f"<cross mark> {res}"
FAIL_PREFIX == << "U+274C", " " >>

(***************************************************************************)
(* Exceptions and call results                                             *)
(***************************************************************************)
NoExc == [cls |-> "", msg |-> << >>]

Exc(cls, msg) == [cls |-> cls, msg |-> msg]

\* a function that returned the tuple (ok, res) having issued reqs requests
Ret(ok, res, reqs) == [raised |-> FALSE, exc |-> NoExc, ok |-> ok, res |-> res, reqs |-> reqs]

\* a function left by an exception having issued reqs requests
Raise(exc, reqs) == [raised |-> TRUE, exc |-> exc, ok |-> FALSE, res |-> None, reqs |-> reqs]

\* except Exception as e: return False, f"{prefix}{e}"
ExceptError(body, prefix) ==
    IF body.raised THEN Ret(FALSE, prefix \o body.exc.msg, body.reqs) ELSE body

(***************************************************************************)
(* What a backend can do when it is contacted                              *)
(***************************************************************************)
\* "**CV**"
TXT_CV ==
    << "*", "*", "C", "V", "*", "*" >>

\* "timed out"
TXT_TIMED_OUT ==
    << "t", "i", "m", "e", "d", " ", "o", "u", "t" >>

\* "refused"
TXT_REFUSED ==
    << "r", "e", "f", "u", "s", "e", "d" >>

\* " Error", the tail of the message of requests' HTTPError
TXT_HTTP_ERROR ==
    << " ", "E", "r", "r", "o", "r" >>

\* "Expecting value", the message of a JSONDecodeError
TXT_EXPECTING_VALUE ==
    << "E", "x", "p", "e", "c", "t", "i", "n", "g", " ", "v", "a",
       "l", "u", "e" >>

\* "no attribute 'get'", the message of the AttributeError of list.get
TXT_NO_ATTR_GET ==
    << "n", "o", " ", "a", "t", "t", "r", "i", "b", "u", "t", "e",
       " ", "'", "g", "e", "t", "'" >>

\* "list index out of range"
TXT_INDEX_RANGE ==
    << "l", "i", "s", "t", " ", "i", "n", "d", "e", "x", " ", "o",
       "u", "t", " ", "o", "f", " ", "r", "a", "n", "g", "e" >>

\* exceptions a client library or requests raises from the transport
TransportExcs ==
    { Exc("ReadTimeout", TXT_TIMED_OUT),
      Exc("ConnectTimeout", TXT_TIMED_OUT),
      Exc("ConnectionError", TXT_REFUSED) }

\* exceptions the hosted SDKs raise for an error status, a body that is
\* not JSON or a transport failure
SdkExcs ==
    TransportExcs \cup
    { Exc("APIStatusError", IntStr(500) \o TXT_HTTP_ERROR),
      Exc("APIResponseValidationError", TXT_EXPECTING_VALUE) }

\* client.messages.create(...): an exception, or a message whose content is
\* a list of blocks (blocks holds str(block) of each) or one other value
\* (content holds its str)
AnthropicOutcomes ==
    { [exc |-> e, is_list |-> TRUE, blocks |-> << >>, content |-> << >>] : e \in SdkExcs }
    \cup
    { [exc |-> NoExc, is_list |-> TRUE, blocks |-> b, content |-> << >>] :
        b \in { << >>, << TXT_CV >>, << TXT_CV, TXT_CV >> } }
    \cup
    { [exc |-> NoExc, is_list |-> FALSE, blocks |-> << >>, content |-> TXT_CV] }

\* client.chat.completions.create(...): an exception, or a response with
\* n_choices choices, the first with the given message content (None: null)
OpenAIOutcomes ==
    { [exc |-> e, n_choices |-> 0, content |-> None] : e \in SdkExcs }
    \cup
    { [exc |-> NoExc, n_choices |-> 0, content |-> None] }
    \cup
    { [exc |-> NoExc, n_choices |-> 1, content |-> c] : c \in { None, << >>, TXT_CV } }

\* bodies of the answer to POST /api/generate: not JSON, a JSON array, or a
\* JSON object with or without a "response" member (None: the JSON null)
GenerateBodies ==
    { [json |-> "invalid", has_response |-> FALSE, response |-> None],
      [json |-> "array", has_response |-> FALSE, response |-> None],
      [json |-> "object", has_response |-> FALSE, response |-> None] }
    \cup
    { [json |-> "object", has_response |-> TRUE, response |-> r] :
        r \in { TXT_CV, << >>, None } }

\* requests.post(url, json=payload, timeout=120): an exception, or a response
OllamaOutcomes ==
    { [exc |-> e, status |-> 0, body |-> [json |-> "invalid", has_response |-> FALSE, response |-> None]] :
        e \in TransportExcs }
    \cup
    { [exc |-> NoExc, status |-> s, body |-> b] : s \in { 200, 404, 500 }, b \in GenerateBodies }

\* no backend is selected
NoBackend == [exc |-> NoExc]

(***************************************************************************)
(* src/llm_clients.py                                                      *)
(***************************************************************************)
\* r.raise_for_status()
raise_for_status(status) ==
    IF status >= 400 /\ status < 600
    THEN Exc("HTTPError", IntStr(status) \o TXT_HTTP_ERROR)
    ELSE NoExc

\* the try block of call_claude
call_claude_try(sdk) ==
    IF sdk.exc # NoExc THEN Raise(sdk.exc, 1)
    ELSE Ret(TRUE, IF sdk.is_list THEN Concat(sdk.blocks) ELSE sdk.content, 1)

\* call_claude without the credential check of lines 12-14
call_claude_unchecked(cfg, env, sdk) ==
    ExceptError(call_claude_try(sdk), ERR_CALLING_CLAUDE)

call_claude(cfg, env, sdk) ==
    LET api_key == Or(cfg.anthropic_api_key, env.ANTHROPIC_API_KEY)
    IN  IF ~Truthy(api_key) THEN Ret(FALSE, MSG_ANTHROPIC_NO_KEY, 0)
        ELSE ExceptError(call_claude_try(sdk), ERR_CALLING_CLAUDE)

\* the try block of call_openai
call_openai_try(sdk) ==
    IF sdk.exc # NoExc THEN Raise(sdk.exc, 1)
    ELSE IF sdk.n_choices = 0 THEN Raise(Exc("IndexError", TXT_INDEX_RANGE), 1)
    ELSE Ret(TRUE, Or(sdk.content, << >>), 1)

call_openai(cfg, env, sdk) ==
    LET api_key == Or(cfg.openai_api_key, env.OPENAI_API_KEY)
    IN  IF ~Truthy(api_key) THEN Ret(FALSE, MSG_OPENAI_NO_KEY, 0)
        ELSE ExceptError(call_openai_try(sdk), ERR_CALLING_OPENAI)

\* the try block of call_ollama reading data["response"]
call_ollama_try_indexing(http) ==
    IF http.exc # NoExc THEN Raise(http.exc, 1)
    ELSE IF raise_for_status(http.status) # NoExc
    THEN Raise(raise_for_status(http.status), 1)
    ELSE IF http.body.json = "invalid"
    THEN Raise(Exc("JSONDecodeError", TXT_EXPECTING_VALUE), 1)
    ELSE IF http.body.json # "object" \/ ~http.body.has_response
    THEN Raise(Exc("KeyError", << "'", "r", "e", "s", "p", "o", "n", "s", "e", "'" >>), 1)
    ELSE Ret(TRUE, http.body.response, 1)

\* the try block of call_ollama
call_ollama_try(http) ==
    IF http.exc # NoExc THEN Raise(http.exc, 1)
    ELSE IF raise_for_status(http.status) # NoExc
    THEN Raise(raise_for_status(http.status), 1)
    ELSE IF http.body.json = "invalid"
    THEN Raise(Exc("JSONDecodeError", TXT_EXPECTING_VALUE), 1)
    ELSE IF http.body.json # "object"
    THEN Raise(Exc("AttributeError", TXT_NO_ATTR_GET), 1)
    ELSE Ret(TRUE, IF http.body.has_response THEN http.body.response ELSE << >>, 1)

\* call_ollama posting a second time when the first request fails
call_ollama_retrying(cfg, http) ==
    LET first == call_ollama_try(http)
    IN  IF first.raised THEN ExceptError(Raise(first.exc, 2), ERR_CALLING_OLLAMA)
        ELSE first

call_ollama(cfg, http) ==
    ExceptError(call_ollama_try(http), ERR_CALLING_OLLAMA)

\* what generate_with_llm gives back: a returned value or an exception, the
\* call_* function it went through ("" for none) and the requests issued
Returned(value, via, reqs) ==
    [raised |-> FALSE, exc |-> NoExc, value |-> value, via |-> via, reqs |-> reqs]

Escaped(exc, via, reqs) ==
    [raised |-> TRUE, exc |-> exc, value |-> None, via |-> via, reqs |-> reqs]

\* the identifier taken as it is given
resolve_provider_as_given(prov) == prov

\* provider = provider or OLLAMA_LOCAL
resolve_provider(prov) == Or(prov, OLLAMA_LOCAL)

\* if not ok: return f"<cross mark> {res}"; return res
render(call, via) ==
    IF call.raised THEN Escaped(call.exc, via, call.reqs)
    ELSE IF ~call.ok THEN Returned(FAIL_PREFIX \o call.res, via, call.reqs)
    ELSE Returned(call.res, via, call.reqs)

\* generate_with_llm sending every other identifier to the local provider
generate_with_llm_fallback(prov, cfg, env, out) ==
    LET p == resolve_provider(prov)
    IN  IF p = CLAUDE_ANTHROPIC THEN render(call_claude(cfg, env, out), "call_claude")
        ELSE IF p = GPT_OPENAI THEN render(call_openai(cfg, env, out), "call_openai")
        ELSE render(call_ollama(cfg, [exc |-> Exc("ConnectionError", TXT_REFUSED)]), "call_ollama")

generate_with_llm(prov, cfg, env, out) ==
    LET p == resolve_provider(prov)
    IN  IF p = CLAUDE_ANTHROPIC THEN render(call_claude(cfg, env, out), "call_claude")
        ELSE IF p = GPT_OPENAI THEN render(call_openai(cfg, env, out), "call_openai")
        ELSE IF p = OLLAMA_LOCAL THEN render(call_ollama(cfg, out), "call_ollama")
        ELSE Returned(MSG_UNKNOWN_CHOICE, "", 0)

(***************************************************************************)
(* The provider client as a state machine                                  *)
(***************************************************************************)
\* "sk-1"
A_KEY == << "s", "k", "-", "1" >>

\* a credential in the config or in the environment: absent, empty or set
Credentials == { None, << >>, A_KEY }

Configs == [anthropic_api_key : Credentials, openai_api_key : Credentials]

Environs == [ANTHROPIC_API_KEY : Credentials, OPENAI_API_KEY : Credentials]

\* "Gemini"
GEMINI == << "G", "e", "m", "i", "n", "i" >>

\* "ollama (local)"
OLLAMA_LOWER ==
    << "o", "l", "l", "a", "m", "a", " ", "(", "l", "o", "c", "a",
       "l", ")" >>

KnownProviders == { CLAUDE_ANTHROPIC, GPT_OPENAI, OLLAMA_LOCAL }

Providers == KnownProviders \cup { None, << >>, GEMINI, OLLAMA_LOWER }

\* what the backend the call selects can do
Outcomes(prov) ==
    LET p == resolve_provider(prov)
    IN  IF p = CLAUDE_ANTHROPIC THEN AnthropicOutcomes
        ELSE IF p = GPT_OPENAI THEN OpenAIOutcomes
        ELSE IF p = OLLAMA_LOCAL THEN OllamaOutcomes
        ELSE { NoBackend }

NotCalled == [called |-> FALSE]

Called(r) ==
    [called |-> TRUE, raised |-> r.raised, exc |-> r.exc, value |-> r.value,
     via |-> r.via, reqs |-> r.reqs]

InitLLM ==
    /\ config \in Configs
    /\ environ \in Environs
    /\ provider = None
    /\ backend = NoBackend
    /\ result = NotCalled

\* one call of generate_with_llm
Generate(prov, out) ==
    /\ provider' = prov
    /\ backend' = out
    /\ result' = Called(generate_with_llm(prov, config, environ, out))
    /\ UNCHANGED << config, environ >>

(***************************************************************************)
(* Model discovery: get_ollama_models of src/llm_clients.py                *)
(***************************************************************************)
\* "Connection Error"
CONNECTION_ERROR ==
    << "C", "o", "n", "n", "e", "c", "t", "i", "o", "n", " ", "E",
       "r", "r", "o", "r" >>

\* "Error"
ERROR_SENTINEL ==
    << "E", "r", "r", "o", "r" >>

\* "<cross mark> Cannot connect to Ollama"
MSG_CANNOT_CONNECT ==
    << "U+274C", " ", "C", "a", "n", "n", "o", "t", " ", "c", "o", "n", "n",
       "e", "c", "t", " ", "t", "o", " ", "O", "l", "l", "a", "m",
       "a" >>

\* "<cross mark> Error fetching models: "
ERR_FETCHING ==
    << "U+274C", " ", "E", "r", "r", "o", "r", " ", "f", "e", "t", "c", "h",
       "i", "n", "g", " ", "m", "o", "d", "e", "l", "s", ":", " " >>

\* "<check mark> Found "
MSG_FOUND ==
    << "U+2705", " ", "F", "o", "u", "n", "d", " " >>

\* " models"
MODELS_SUFFIX ==
    << " ", "m", "o", "d", "e", "l", "s" >>

\* "'name'", the message of KeyError("name")
TXT_KEY_NAME ==
    << "'", "n", "a", "m", "e", "'" >>

\* "not iterable", the message of the TypeError of a loop over None
TXT_NOT_ITERABLE ==
    << "n", "o", "t", " ", "i", "t", "e", "r", "a", "b", "l", "e" >>

\* "llama3"
LLAMA3 == << "l", "l", "a", "m", "a", "3" >>

\* "phi"
PHI == << "p", "h", "i" >>

\* longest "models" array of a discovery response
MaxModels == 3

\* a member of the "models" array: an object with or without a "name"
ModelEntries ==
    { [has_name |-> TRUE, name |-> LLAMA3],
      [has_name |-> TRUE, name |-> PHI],
      [has_name |-> FALSE, name |-> << >>] }

RECURSIVE SeqsUpTo(_, _)
SeqsUpTo(S, n) ==
    IF n = 0 THEN { << >> }
    ELSE LET shorter == SeqsUpTo(S, n - 1)
         IN  shorter \cup { Append(q, x) : q \in { t \in shorter : Len(t) = n - 1 }, x \in S }

\* bodies of the answer to GET /api/tags: not JSON, a JSON array, or a JSON
\* object whose "models" member is absent, null or an array
TagsBodies ==
    { [json |-> "invalid", models_kind |-> "absent", models |-> << >>],
      [json |-> "array", models_kind |-> "absent", models |-> << >>],
      [json |-> "object", models_kind |-> "absent", models |-> << >>],
      [json |-> "object", models_kind |-> "null", models |-> << >>] }
    \cup
    { [json |-> "object", models_kind |-> "array", models |-> m] :
        m \in SeqsUpTo(ModelEntries, MaxModels) }

\* requests.get(url, timeout=5): an exception, or a response
TagsOutcomes ==
    { [exc |-> e, status |-> 0, body |-> [json |-> "invalid", models_kind |-> "absent", models |-> << >>]] :
        e \in TransportExcs }
    \cup
    { [exc |-> NoExc, status |-> s, body |-> b] : s \in { 200, 404, 500 }, b \in TagsBodies }

\* the tuple (models, status) returned after reqs requests
Found(models, status, reqs) ==
    [raised |-> FALSE, exc |-> NoExc, models |-> models, status |-> status, reqs |-> reqs]

Failed(exc, reqs) ==
    [raised |-> TRUE, exc |-> exc, models |-> << >>, status |-> << >>, reqs |-> reqs]

\* the classes of requests.exceptions that derive from ConnectionError
IsConnectionError(cls) == cls \in { "ConnectionError", "ConnectTimeout" }

\* the try block of get_ollama_models
get_ollama_models_try(http) ==
    IF http.exc # NoExc THEN Failed(http.exc, 1)
    ELSE IF raise_for_status(http.status) # NoExc
    THEN Failed(raise_for_status(http.status), 1)
    ELSE IF http.body.json = "invalid"
    THEN Failed(Exc("JSONDecodeError", TXT_EXPECTING_VALUE), 1)
    ELSE IF http.body.json # "object"
    THEN Failed(Exc("AttributeError", TXT_NO_ATTR_GET), 1)
    ELSE IF http.body.models_kind = "null"
    THEN Failed(Exc("TypeError", TXT_NOT_ITERABLE), 1)
    ELSE LET models == http.body.models
         IN  IF \E i \in 1..Len(models) : ~models[i].has_name
             THEN Failed(Exc("KeyError", TXT_KEY_NAME), 1)
             ELSE Found([i \in 1..Len(models) |-> models[i].name],
                        MSG_FOUND \o IntStr(Len(models)) \o MODELS_SUFFIX, 1)

\* get_ollama_models without the except clause of lines 96-97
get_ollama_models_generic(http) ==
    LET body == get_ollama_models_try(http)
    IN  IF ~body.raised THEN body
        ELSE Found(<< ERROR_SENTINEL >>, ERR_FETCHING \o body.exc.msg, body.reqs)

get_ollama_models(http) ==
    LET body == get_ollama_models_try(http)
    IN  IF ~body.raised THEN body
        ELSE IF IsConnectionError(body.exc.cls)
        THEN Found(<< CONNECTION_ERROR >>, MSG_CANNOT_CONNECT, body.reqs)
        ELSE Found(<< ERROR_SENTINEL >>, ERR_FETCHING \o body.exc.msg, body.reqs)

NoTags == [exc |-> NoExc]

Discovered(r) ==
    [called |-> TRUE, raised |-> r.raised, exc |-> r.exc, models |-> r.models,
     status |-> r.status, reqs |-> r.reqs]

InitDiscovery ==
    /\ tags_backend = NoTags
    /\ discovery = NotCalled

\* one call of get_ollama_models (the refresh button of src/app.py)
GetOllamaModels(http) ==
    /\ tags_backend' = http
    /\ discovery' = Discovered(get_ollama_models(http))

(***************************************************************************)
(* More str operations, for src/utils.py                                   *)
(***************************************************************************)
UpperChars ==
    << "A", "B", "C", "D", "E", "F", "G", "H", "I", "J", "K", "L", "M",
       "N", "O", "P", "Q", "R", "S", "T", "U", "V", "W", "X", "Y", "Z" >>

LowerChars ==
    << "a", "b", "c", "d", "e", "f", "g", "h", "i", "j", "k", "l", "m",
       "n", "o", "p", "q", "r", "s", "t", "u", "v", "w", "x", "y", "z" >>

\* s.lower()
Lower(s) ==
    [i \in 1..Len(s) |->
        IF \E k \in 1..Len(UpperChars) : UpperChars[k] = s[i]
        THEN LowerChars[CHOOSE k \in 1..Len(UpperChars) : UpperChars[k] = s[i]]
        ELSE s[i]]

Whitespace == { " ", "\n", "\t", "\r" }

\* s.strip()
Strip(s) ==
    LET I == { i \in 1..Len(s) : s[i] \notin Whitespace }
    IN  IF I = {} THEN << >>
        ELSE SubSeq(s, Min(I), CHOOSE m \in I : \A n \in I : n <= m)

\* s[a:b] for 0 <= a <= b
Slice(s, a, b) == SubSeq(s, a + 1, IF b < Len(s) THEN b ELSE Len(s))

\* s.split(sep) for a non-empty sep
RECURSIVE Split(_, _)
Split(s, sep) ==
    LET i == Find(s, sep)
    IN  IF i = 0 THEN << s >>
        ELSE << SubSeq(s, 1, i - 1) >> \o Split(SubSeq(s, i + Len(sep), Len(s)), sep)

\* s.split(sep, 1)[1] for a sep that occurs in s
AfterFirst(s, sep) == SubSeq(s, Find(s, sep) + Len(sep), Len(s))

\* len(s.split())
TokenCount(s) ==
    Cardinality({ i \in 1..Len(s) :
        s[i] \notin Whitespace /\ (i = 1 \/ s[i - 1] \in Whitespace) })

\* sep.join(parts)
RECURSIVE Join(_, _)
Join(parts, sep) ==
    IF parts = << >> THEN << >>
    ELSE IF Len(parts) = 1 THEN parts[1]
    ELSE parts[1] \o sep \o Join(Tail(parts), sep)

\* [x for x in xs if x]
RECURSIVE NonEmpty(_)
NonEmpty(xs) ==
    IF xs = << >> THEN << >>
    ELSE IF Head(xs) = << >> THEN NonEmpty(Tail(xs))
    ELSE << Head(xs) >> \o NonEmpty(Tail(xs))

(***************************************************************************)
(* src/utils.py: extract_job_info_from_description                         *)
(***************************************************************************)
\* "company:"
KW_COMPANY ==
    << "c", "o", "m", "p", "a", "n", "y", ":" >>

\* " at "
KW_AT ==
    << " ", "a", "t", " " >>

\* "position:"
KW_POSITION ==
    << "p", "o", "s", "i", "t", "i", "o", "n", ":" >>

\* "role:"
KW_ROLE ==
    << "r", "o", "l", "e", ":" >>

\* "title:"
KW_TITLE ==
    << "t", "i", "t", "l", "e", ":" >>

\* "job title:"
KW_JOB_TITLE ==
    << "j", "o", "b", " ", "t", "i", "t", "l", "e", ":" >>

\* "http"
KW_HTTP ==
    << "h", "t", "t", "p" >>

\* "www"
KW_WWW ==
    << "w", "w", "w" >>

\* "required skills:"
KW_REQUIRED_SKILLS ==
    << "r", "e", "q", "u", "i", "r", "e", "d", " ", "s", "k", "i",
       "l", "l", "s", ":" >>

\* "skills:"
KW_SKILLS ==
    << "s", "k", "i", "l", "l", "s", ":" >>

\* "requirements:"
KW_REQUIREMENTS ==
    << "r", "e", "q", "u", "i", "r", "e", "m", "e", "n", "t", "s",
       ":" >>

\* "qualifications:"
KW_QUALIFICATIONS ==
    << "q", "u", "a", "l", "i", "f", "i", "c", "a", "t", "i", "o",
       "n", "s", ":" >>

\* "technical skills:"
KW_TECHNICAL_SKILLS ==
    << "t", "e", "c", "h", "n", "i", "c", "a", "l", " ", "s", "k",
       "i", "l", "l", "s", ":" >>

\* "must have:"
KW_MUST_HAVE ==
    << "m", "u", "s", "t", " ", "h", "a", "v", "e", ":" >>

\* shortest stripped description the extractor looks at
MinLength == 30

\* lines scanned for the company and for the position
CompanyLines == 10

PositionLines == 5

\* characters of the skills section, and the end of the lines [1:8] kept of it
SkillsWindow == 500

SkillsLastLine == 8

\* a title has at most MaxTitleTokens words and more than MinTitleLen characters
MaxTitleTokens == 6

MinTitleLen == 10

\* a byline "... at Company" has fewer than MaxBylineTokens words
MaxBylineTokens == 10

position_keywords == << KW_POSITION, KW_ROLE, KW_TITLE, KW_JOB_TITLE >>

skill_keywords ==
    << KW_REQUIRED_SKILLS, KW_SKILLS, KW_REQUIREMENTS, KW_QUALIFICATIONS,
       KW_TECHNICAL_SKILLS, KW_MUST_HAVE >>

\* the loop "for line in lines[:10]" from line i on
RECURSIVE company_scan(_, _)
company_scan(lines, i) ==
    IF i > Len(lines) \/ i > CompanyLines THEN << >>
    ELSE LET line == lines[i]
         IN  IF Contains(Lower(line), KW_COMPANY)
             THEN Strip(AfterFirst(line, << ":" >>))
             ELSE IF /\ Contains(Lower(line), KW_AT)
                     /\ TokenCount(line) < MaxBylineTokens
                     /\ Len(Split(line, KW_AT)) > 1
             THEN Strip(Split(line, KW_AT)[2])
             ELSE company_scan(lines, i + 1)

\* position_scan taking the whole line of a marker, not the text after it
RECURSIVE position_scan_whole_line(_, _)
position_scan_whole_line(lines, i) ==
    IF i > Len(lines) \/ i > PositionLines THEN << >>
    ELSE LET line == lines[i]
         IN  IF \/ \E k \in 1..Len(position_keywords) :
                        Contains(Lower(line), position_keywords[k])
                \/ /\ TokenCount(line) <= MaxTitleTokens
                   /\ Len(line) > MinTitleLen
                   /\ ~StartsWith(line, KW_HTTP)
                   /\ ~StartsWith(line, KW_WWW)
             THEN Strip(line)
             ELSE position_scan_whole_line(lines, i + 1)

\* the loop "for line in lines[:5]" from line i on
RECURSIVE position_scan(_, _)
position_scan(lines, i) ==
    IF i > Len(lines) \/ i > PositionLines THEN << >>
    ELSE LET line == lines[i]
         IN  IF \E k \in 1..Len(position_keywords) :
                    Contains(Lower(line), position_keywords[k])
             THEN IF Contains(line, << ":" >>)
                  THEN Strip(AfterFirst(line, << ":" >>))
                  ELSE Strip(line)
             ELSE IF /\ TokenCount(line) <= MaxTitleTokens
                     /\ Len(line) > MinTitleLen
                     /\ ~StartsWith(line, KW_HTTP)
                     /\ ~StartsWith(line, KW_WWW)
             THEN Strip(line)
             ELSE position_scan(lines, i + 1)

\* skills_block reading on to the end of the text
skills_block_whole_text(job_description, keyword) ==
    LET idx == Find(Lower(job_description), keyword) - 1
        skills_section == Slice(job_description, idx, Len(job_description))
        parts == Split(skills_section, << "\n" >>)
        kept == SubSeq(parts, 2, IF Len(parts) < SkillsLastLine
                                 THEN Len(parts) ELSE SkillsLastLine)
    IN  Join(NonEmpty([k \in 1..Len(kept) |-> Strip(kept[k])]), << "\n" >>)

\* the skills block anchored at the first occurrence of keyword
skills_block(job_description, keyword) ==
    LET idx == Find(Lower(job_description), keyword) - 1
        skills_section == Slice(job_description, idx, idx + SkillsWindow)
        parts == Split(skills_section, << "\n" >>)
        kept == SubSeq(parts, 2, IF Len(parts) < SkillsLastLine
                                 THEN Len(parts) ELSE SkillsLastLine)
    IN  Join(NonEmpty([k \in 1..Len(kept) |-> Strip(kept[k])]), << "\n" >>)

\* skills_scan anchoring the block at the phrase that occurs first in the text
skills_scan_earliest(job_description, k) ==
    LET text_lower == Lower(job_description)
        found == { n \in 1..Len(skill_keywords) :
                     Contains(text_lower, skill_keywords[n]) }
    IN  IF found = {} THEN << >>
        ELSE LET first == CHOOSE n \in found : \A m \in found :
                              Find(text_lower, skill_keywords[n])
                                  <= Find(text_lower, skill_keywords[m])
             IN  skills_block(job_description, skill_keywords[first])

\* the loop "for keyword in skill_keywords" from keyword k on
RECURSIVE skills_scan(_, _)
skills_scan(job_description, k) ==
    IF k > Len(skill_keywords) THEN << >>
    ELSE IF Contains(Lower(job_description), skill_keywords[k])
    THEN skills_block(job_description, skill_keywords[k])
    ELSE skills_scan(job_description, k + 1)

\* the tuple (job_role, company, position, skills)
Info(role, comp, pos, sk) ==
    [job_role |-> role, company |-> comp, position |-> pos, skills |-> sk]

\* the extractor measuring the text with its surrounding whitespace
extract_job_info_unstripped(job_description) ==
    IF ~Truthy(job_description) \/ Len(job_description) < MinLength
    THEN Info(None, None, None, None)
    ELSE LET lines == Split(job_description, << "\n" >>)
             position_ == position_scan(lines, 1)
         IN  Info(position_, company_scan(lines, 1), position_,
                  skills_scan(job_description, 1))

\* the extractor setting job_role only in the title heuristic's branch, to
\* the line as it stands
extract_job_info_role_by_title(job_description) ==
    IF ~Truthy(job_description) \/ Len(Strip(job_description)) < MinLength
    THEN Info(None, None, None, None)
    ELSE LET lines == Split(job_description, << "\n" >>)
             position_ == position_scan(lines, 1)
             titled == position_scan_whole_line(lines, 1)
         IN  Info(IF titled = position_ THEN position_ ELSE << >>,
                  company_scan(lines, 1), position_,
                  skills_scan(job_description, 1))

extract_job_info_from_description(job_description) ==
    IF ~Truthy(job_description) \/ Len(Strip(job_description)) < MinLength
    THEN Info(None, None, None, None)
    ELSE LET lines == Split(job_description, << "\n" >>)
             position_ == position_scan(lines, 1)
         IN  Info(position_, company_scan(lines, 1), position_,
                  skills_scan(job_description, 1))

(***************************************************************************)
(* src/utils.py: auto_fill_from_job_description                            *)
(***************************************************************************)
\* "\n\n--- Extracted from Job Description ---\n"
SKILLS_SEPARATOR ==
    << "\n", "\n", "-", "-", "-", " ", "E", "x", "t", "r", "a", "c",
       "t", "e", "d", " ", "f", "r", "o", "m", " ", "J", "o", "b",
       " ", "D", "e", "s", "c", "r", "i", "p", "t", "i", "o", "n",
       " ", "-", "-", "-", "\n" >>

\* "Position: Staff Engineer\nCompany: Acme Corp\nSkills:\n- Go\n- Distributed systems\n"
JD_STAFF ==
    << "P", "o", "s", "i", "t", "i", "o", "n", ":", " ", "S", "t",
       "a", "f", "f", " ", "E", "n", "g", "i", "n", "e", "e", "r",
       "\n", "C", "o", "m", "p", "a", "n", "y", ":", " ", "A", "c",
       "m", "e", " ", "C", "o", "r", "p", "\n", "S", "k", "i", "l",
       "l", "s", ":", "\n", "-", " ", "G", "o", "\n", "-", " ", "D",
       "i", "s", "t", "r", "i", "b", "u", "t", "e", "d", " ", "s",
       "y", "s", "t", "e", "m", "s", "\n" >>

\* "Senior Analyst at Globex\nRequirements:\n* SQL\n"
JD_ANALYST ==
    << "S", "e", "n", "i", "o", "r", " ", "A", "n", "a", "l", "y",
       "s", "t", " ", "a", "t", " ", "G", "l", "o", "b", "e", "x",
       "\n", "R", "e", "q", "u", "i", "r", "e", "m", "e", "n", "t",
       "s", ":", "\n", "*", " ", "S", "Q", "L", "\n" >>

\* "We are hiring a person to join our team now"
JD_PROSE ==
    << "W", "e", " ", "a", "r", "e", " ", "h", "i", "r", "i", "n",
       "g", " ", "a", " ", "p", "e", "r", "s", "o", "n", " ", "t",
       "o", " ", "j", "o", "i", "n", " ", "o", "u", "r", " ", "t",
       "e", "a", "m", " ", "n", "o", "w" >>

\* "Role: Cook"
JD_SHORT ==
    << "R", "o", "l", "e", ":", " ", "C", "o", "o", "k" >>

\* "Chef"
USER_ROLE ==
    << "C", "h", "e", "f" >>

\* "Knives"
USER_SKILLS ==
    << "K", "n", "i", "v", "e", "s" >>

\* "Role: Cook\nSkills:\n- Go\n        "
JD_PADDED ==
    << "R", "o", "l", "e", ":", " ", "C", "o", "o", "k", "\n", "S",
       "k", "i", "l", "l", "s", ":", "\n", "-", " ", "G", "o", "\n",
       " ", " ", " ", " ", " ", " ", " ", " " >>

\* what the job description box can hold
JobDescs ==
    { None, << >>, JD_SHORT, JD_PADDED, JD_PROSE, JD_ANALYST, JD_STAFF }

\* extract_job_info_from_description, tabulated over the job descriptions
extracted_from ==
    [jd \in JobDescs |-> extract_job_info_from_description(jd)]

\* keep_or_fill letting an extracted value replace what the box holds
keep_or_fill_overwrite(current, extracted) == Or(extracted, current)

\* current if current else extracted
keep_or_fill_no_default(current, extracted) ==
    IF Truthy(current) THEN current ELSE extracted

\* current if current else (extracted or current)
keep_or_fill(current, extracted) ==
    IF Truthy(current) THEN current ELSE Or(extracted, current)

\* merge_skills replacing the box's text by the extracted block
merge_skills_replace(current_skills, extracted_skills) ==
    IF Truthy(extracted_skills) THEN extracted_skills ELSE current_skills

\* merge_skills appending a block only if the box does not hold it yet
merge_skills_once(current_skills, extracted_skills) ==
    IF Truthy(extracted_skills) /\ ~Truthy(current_skills) THEN extracted_skills
    ELSE IF Truthy(extracted_skills) /\ ~Contains(current_skills, extracted_skills)
    THEN current_skills \o SKILLS_SEPARATOR \o extracted_skills
    ELSE current_skills

\* lines 76-85
merge_skills(current_skills, extracted_skills) ==
    IF Truthy(extracted_skills) /\ ~Truthy(current_skills) THEN extracted_skills
    ELSE IF Truthy(extracted_skills) /\ Truthy(current_skills)
    THEN current_skills \o SKILLS_SEPARATOR \o extracted_skills
    ELSE current_skills

auto_fill_from_job_description(jd, cur_job_role, cur_company, cur_position, cur_skills) ==
    IF ~Truthy(jd)
    THEN Info(cur_job_role, cur_company, cur_position, cur_skills)
    ELSE LET extracted == extracted_from[jd]
         IN  Info(keep_or_fill(cur_job_role, extracted.job_role),
                  keep_or_fill(cur_company, extracted.company),
                  keep_or_fill(cur_position, extracted.position),
                  merge_skills(cur_skills, extracted.skills))

(***************************************************************************)
(* The form of src/app.py and its auto-fill button                         *)
(***************************************************************************)
\* what the user types into the role, company and position boxes
TypedNames == { << >>, USER_ROLE }

\* what the user types into the skills box
TypedSkills == { << >>, USER_SKILLS }

\* auto-fill clicks allowed between two edits of the skills box
MaxFills == 3

NoFill == [filled |-> FALSE]

NoRun == [n |-> 0]

InitForm ==
    /\ job_desc = << >>
    /\ job_role = << >>
    /\ company = << >>
    /\ position = << >>
    /\ skills = << >>
    /\ fills = 0
    /\ last_fill = NoFill
    /\ run = NoRun

\* the user replaces the text of the job description box
EditJobDesc(jd) ==
    /\ jd # job_desc
    /\ job_desc' = jd
    /\ last_fill' = NoFill
    /\ run' = NoRun
    /\ UNCHANGED << job_role, company, position, skills, fills >>

\* the user replaces the text of the role, company or position box
EditJobRole(v) ==
    /\ v # job_role
    /\ job_role' = v
    /\ last_fill' = NoFill
    /\ run' = NoRun
    /\ UNCHANGED << job_desc, company, position, skills, fills >>

EditCompany(v) ==
    /\ v # company
    /\ company' = v
    /\ last_fill' = NoFill
    /\ run' = NoRun
    /\ UNCHANGED << job_desc, job_role, position, skills, fills >>

EditPosition(v) ==
    /\ v # position
    /\ position' = v
    /\ last_fill' = NoFill
    /\ run' = NoRun
    /\ UNCHANGED << job_desc, job_role, company, skills, fills >>

\* the user replaces the text of the skills box
EditSkills(v) ==
    /\ v # skills
    /\ skills' = v
    /\ fills' = 0
    /\ last_fill' = NoFill
    /\ run' = NoRun
    /\ UNCHANGED << job_desc, job_role, company, position >>

\* auto_fill_btn.click: the four boxes go through
\* auto_fill_from_job_description and take what it returns
AutoFillClick ==
    LET new == auto_fill_from_job_description(job_desc, job_role, company,
                                              position, skills)
    IN  /\ fills < MaxFills
        /\ job_role' = new.job_role
        /\ company' = new.company
        /\ position' = new.position
        /\ skills' = new.skills
        /\ fills' = fills + 1
        /\ last_fill' = [filled |-> TRUE,
                         job_desc |-> job_desc,
                         current |-> Info(job_role, company, position, skills),
                         extracted |-> extracted_from[job_desc]]
        /\ run' = IF run.n = 0 /\ Truthy(skills) THEN NoRun
                  ELSE IF run.n = 0 THEN [n |-> 1, first |-> new]
                  ELSE [n |-> run.n + 1, first |-> run.first]
        /\ UNCHANGED job_desc

(***************************************************************************)
(* Job descriptions for the extractor taken alone: a text is some rule     *)
(* lines, then up to MaxPicked lines of the kinds the extractor looks for, *)
(* then nothing, a line of prose or a line of blanks                       *)
(***************************************************************************)
\* "Role: Data Lead"
LINE_ROLE ==
    << "R", "o", "l", "e", ":", " ", "D", "a", "t", "a", " ", "L",
       "e", "a", "d" >>

\* "Senior Analyst at Globex"
LINE_BYLINE ==
    << "S", "e", "n", "i", "o", "r", " ", "A", "n", "a", "l", "y",
       "s", "t", " ", "a", "t", " ", "G", "l", "o", "b", "e", "x" >>

\* "Company: Initech"
LINE_COMPANY ==
    << "C", "o", "m", "p", "a", "n", "y", ":", " ", "I", "n", "i",
       "t", "e", "c", "h" >>

\* "Skills:"
LINE_SKILLS ==
    << "S", "k", "i", "l", "l", "s", ":" >>

\* "- Python"
LINE_ITEM ==
    << "-", " ", "P", "y", "t", "h", "o", "n" >>

\* "http://jobs.example/42"
LINE_URL ==
    << "h", "t", "t", "p", ":", "/", "/", "j", "o", "b", "s", ".",
       "e", "x", "a", "m", "p", "l", "e", "/", "4", "2" >>

\* "Open: Job Title: Chef"
LINE_NOTE ==
    << "O", "p", "e", "n", ":", " ", "J", "o", "b", " ", "T", "i",
       "t", "l", "e", ":", " ", "C", "h", "e", "f" >>

\* "--"
LINE_RULE ==
    << "-", "-" >>

\* "We are hiring a person to join our team now"
LINE_PROSE ==
    << "W", "e", " ", "a", "r", "e", " ", "h", "i", "r", "i", "n",
       "g", " ", "a", " ", "p", "e", "r", "s", "o", "n", " ", "t",
       "o", " ", "j", "o", "i", "n", " ", "o", "u", "r", " ", "t",
       "e", "a", "m", " ", "n", "o", "w" >>

\* "                              "
LINE_BLANK ==
    << " ", " ", " ", " ", " ", " ", " ", " ", " ", " ", " ", " ",
       " ", " ", " ", " ", " ", " ", " ", " ", " ", " ", " ", " ",
       " ", " ", " ", " ", " ", " " >>

\* rule lines in front of the picked lines
MaxPad == 5

\* lines picked after them
MaxPicked == 2

PickedLines ==
    { LINE_ROLE, LINE_BYLINE, LINE_COMPANY, LINE_SKILLS, LINE_ITEM, LINE_URL,
      LINE_NOTE }

Footers == { << >>, << LINE_PROSE >>, << LINE_BLANK >> }

\* "Requirements:"
LINE_REQS ==
    << "R", "e", "q", "u", "i", "r", "e", "m", "e", "n", "t", "s",
       ":" >>

\* "Technical Skills: Go"
LINE_TECH ==
    << "T", "e", "c", "h", "n", "i", "c", "a", "l", " ", "S", "k",
       "i", "l", "l", "s", ":", " ", "G", "o" >>

\* "Must have: Rust"
LINE_MUST ==
    << "M", "u", "s", "t", " ", "h", "a", "v", "e", ":", " ", "R",
       "u", "s", "t" >>

\* one line of 131 characters
LINE_LONG == Join(<< LINE_PROSE, LINE_PROSE, LINE_PROSE >>, << " " >>)

\* a line picked at the ninth, tenth and eleventh place
LateLines ==
    { Join([i \in 1..k |-> LINE_RULE] \o << l, LINE_PROSE >>, << "\n" >>) :
        k \in { CompanyLines - 2, CompanyLines - 1, CompanyLines },
        l \in { LINE_COMPANY, LINE_BYLINE } }

SectionHeads == { LINE_SKILLS, LINE_REQS, LINE_TECH, LINE_MUST, LINE_ITEM }

\* what follows the section heads: one line, nine lines with a blank one
\* among them, and 659 characters
SectionBodies ==
    { << LINE_PROSE >>,
      << LINE_ITEM, LINE_RULE, LINE_PROSE, LINE_ITEM, LINE_RULE, LINE_URL,
         LINE_BLANK, LINE_NOTE, LINE_ROLE >>,
      << LINE_LONG, LINE_LONG, LINE_LONG, LINE_LONG, LINE_LONG >> }

SkillSections ==
    { Join(heads \o body, << "\n" >>) :
        heads \in SeqsUpTo(SectionHeads, 2) \ { << >> },
        body \in SectionBodies }

Descriptions ==
    { None } \cup
    { Join([i \in 1..k |-> LINE_RULE] \o picked \o footer, << "\n" >>) :
        k \in 0..MaxPad, picked \in SeqsUpTo(PickedLines, MaxPicked),
        footer \in Footers }
    \cup LateLines \cup SkillSections

NotExtracted == [done |-> FALSE]

InitExtract ==
    /\ description = None
    /\ info = NotExtracted

\* info = extract_job_info_from_description(description)
ExtractJobInfo ==
    /\ ~info.done
    /\ info' = [done |-> TRUE,
                value |-> extract_job_info_from_description(description)]
    /\ UNCHANGED description

(***************************************************************************)
(* src/config.py: config.json, its backup, load_config and save_config     *)
(***************************************************************************)
\* "llama3.2:latest"
LLAMA32 ==
    << "l", "l", "a", "m", "a", "3", ".", "2", ":", "l", "a", "t",
       "e", "s", "t" >>

\* "claude-sonnet-4-20250514"
CLAUDE_SONNET_4 ==
    << "c", "l", "a", "u", "d", "e", "-", "s", "o", "n", "n", "e",
       "t", "-", "4", "-", "2", "0", "2", "5", "0", "5", "1", "4" >>

\* "gpt-4-turbo-preview"
GPT_4_TURBO_PREVIEW ==
    << "g", "p", "t", "-", "4", "-", "t", "u", "r", "b", "o", "-",
       "p", "r", "e", "v", "i", "e", "w" >>

\* "http://localhost:11434"
LOCALHOST_URL ==
    << "h", "t", "t", "p", ":", "/", "/", "l", "o", "c", "a", "l",
       "h", "o", "s", "t", ":", "1", "1", "4", "3", "4" >>

\* "mistral"
MISTRAL ==
    << "m", "i", "s", "t", "r", "a", "l" >>

\* DEFAULT_CONFIG, built when the module is imported; temperature in tenths
DEFAULT_CONFIG ==
    [default_model |-> LLAMA32,
     claude_model |-> CLAUDE_SONNET_4,
     openai_model |-> GPT_4_TURBO_PREVIEW,
     ollama_model |-> LLAMA32,
     ollama_url |-> LOCALHOST_URL,
     anthropic_api_key |-> Or(environ.ANTHROPIC_API_KEY, << >>),
     openai_api_key |-> Or(environ.OPENAI_API_KEY, << >>),
     max_tokens |-> 4000,
     temperature |-> 7]

\* {**a, **b}
Merge(a, b) ==
    [k \in DOMAIN a \cup DOMAIN b |-> IF k \in DOMAIN b THEN b[k] ELSE a[k]]

\* a file that does not exist, and the contents a file can have: a JSON
\* object, JSON of another kind, or text that is no JSON
NoFile == [kind |-> "absent", data |-> << >>]

ObjectFile(d) == [kind |-> "object", data |-> d]

ArrayFile == [kind |-> "array", data |-> << >>]

CorruptFile == [kind |-> "corrupt", data |-> << >>]

\* how a write that opens with mode "w" can end: done, refused before the
\* file is opened, or failed after the open has emptied the file
WriteOutcomes == { "ok", "refused", "truncated" }

\* how CONFIG_FILE.replace(backup) can end
MoveOutcomes == { "ok", "failed" }

\* what load_config gives back, and the two files as it leaves them
Loaded(raised, value, file, backup) ==
    [raised |-> raised, value |-> value, file |-> file, backup |-> backup]

\* load_config returning what the file holds, without the defaults
load_config_unmerged(file, backup, move) ==
    IF file.kind = "object" THEN Loaded(FALSE, file.data, file, backup)
    ELSE Loaded(FALSE, DEFAULT_CONFIG, file, backup)

\* load_config answering a file it cannot parse with the defaults and
\* leaving the file where it is
load_config_in_place(file, backup, move) ==
    IF file.kind = "object"
    THEN Loaded(FALSE, Merge(DEFAULT_CONFIG, file.data), file, backup)
    ELSE Loaded(FALSE, DEFAULT_CONFIG, file, backup)

\* load_config writing the merged values back to config.json
load_config_writing_back(file, backup, move) ==
    IF file.kind = "absent"
    THEN Loaded(FALSE, DEFAULT_CONFIG, ObjectFile(DEFAULT_CONFIG), backup)
    ELSE IF file.kind = "object"
    THEN Loaded(FALSE, Merge(DEFAULT_CONFIG, file.data),
                ObjectFile(Merge(DEFAULT_CONFIG, file.data)), backup)
    ELSE IF move = "ok" THEN Loaded(FALSE, DEFAULT_CONFIG, NoFile, file)
    ELSE Loaded(TRUE, << >>, file, backup)

load_config(file, backup, move) ==
    IF file.kind = "absent" THEN Loaded(FALSE, DEFAULT_CONFIG, file, backup)
    ELSE IF file.kind = "object"
    THEN Loaded(FALSE, Merge(DEFAULT_CONFIG, file.data), file, backup)
    ELSE IF move = "ok" THEN Loaded(FALSE, DEFAULT_CONFIG, NoFile, file)
    ELSE Loaded(TRUE, << >>, file, backup)

\* save_config: the file it leaves and whether the write raised
save_config(file, cfg, write) ==
    IF write = "ok"
    THEN [raised |-> FALSE, file |-> ObjectFile(Merge(DEFAULT_CONFIG, cfg))]
    ELSE IF write = "refused" THEN [raised |-> TRUE, file |-> file]
    ELSE [raised |-> TRUE, file |-> CorruptFile]

\* save_cfg of the configuration tab: the nine widgets as the user set them
save_cfg(ollama_model, anthropic_key, max_tokens) ==
    [default_model |-> OLLAMA_LOCAL,
     claude_model |-> CLAUDE_SONNET_4,
     openai_model |-> GPT_4_TURBO_PREVIEW,
     ollama_model |-> ollama_model,
     ollama_url |-> LOCALHOST_URL,
     anthropic_api_key |-> anthropic_key,
     openai_api_key |-> << >>,
     max_tokens |-> max_tokens,
     temperature |-> 7]

\* what the user sets the widgets to
SavedConfigs ==
    { save_cfg(m, k, t) : m \in { LLAMA32, MISTRAL }, k \in { << >>, A_KEY },
                          t \in { 4000, 2000 } }

\* edits made to config.json from outside the program
MaxEdits == 2

NotLoaded == [done |-> FALSE]

InitConfigFile ==
    /\ config_file = NoFile
    /\ backup_file = NoFile
    /\ loaded = NotLoaded
    /\ edits = 0

\* a call of load_config
LoadConfig(move) ==
    LET r == load_config(config_file, backup_file, move)
    IN  /\ config_file' = r.file
        /\ backup_file' = r.backup
        /\ loaded' = [done |-> TRUE, raised |-> r.raised, value |-> r.value,
                      found |-> config_file]
        /\ UNCHANGED edits

\* the Save Configuration button
SaveConfig(cfg, write) ==
    /\ config_file' = save_config(config_file, cfg, write).file
    /\ loaded' = NotLoaded
    /\ UNCHANGED << backup_file, edits >>

\* somebody removes a key from the object in config.json
RemoveKey(k) ==
    /\ edits < MaxEdits
    /\ config_file.kind = "object"
    /\ k \in DOMAIN config_file.data
    /\ config_file' = ObjectFile([j \in DOMAIN config_file.data \ { k } |->
                                    config_file.data[j]])
    /\ loaded' = NotLoaded
    /\ edits' = edits + 1
    /\ UNCHANGED backup_file

\* somebody replaces the text of config.json
Overwrite(file) ==
    /\ edits < MaxEdits
    /\ config_file.kind # "absent"
    /\ config_file # file
    /\ config_file' = file
    /\ loaded' = NotLoaded
    /\ edits' = edits + 1
    /\ UNCHANGED backup_file

(***************************************************************************)
(* src/storage.py: conversation_history.json and its three functions       *)
(***************************************************************************)
\* conversation_history.json holding a JSON array of entries
ListFile(entries) == [kind |-> "array", data |-> entries]

\* load_memory: the parsed file, [] when it is absent or cannot be parsed
load_memory(file) == IF file.kind = "array" THEN file.data ELSE << >>

\* save_memory writing the file's entries followed by the newest one
save_memory_merging(file, history, write) ==
    IF write = "ok"
    THEN [ok |-> TRUE,
          file |-> ListFile(load_memory(file) \o << history[Len(history)] >>)]
    ELSE IF write = "refused" THEN [ok |-> FALSE, file |-> file]
    ELSE [ok |-> FALSE, file |-> CorruptFile]

\* save_memory: the file it leaves and the boolean it returns
\* save_memory leaving a file that cannot be parsed as it is
save_memory_if_parsed(file, history, write) ==
    IF file.kind = "corrupt" THEN [ok |-> FALSE, file |-> file]
    ELSE IF write = "ok" THEN [ok |-> TRUE, file |-> ListFile(history)]
    ELSE IF write = "refused" THEN [ok |-> FALSE, file |-> file]
    ELSE [ok |-> FALSE, file |-> CorruptFile]

save_memory(file, history, write) ==
    IF write = "ok" THEN [ok |-> TRUE, file |-> ListFile(history)]
    ELSE IF write = "refused" THEN [ok |-> FALSE, file |-> file]
    ELSE [ok |-> FALSE, file |-> CorruptFile]

\* {**item, "timestamp": datetime.now().isoformat()}, the time as a tick
Stamp(item, now) ==
    [type |-> item.type, model |-> item.model, inputs |-> item.inputs,
     output |-> item.output, timestamp |-> now]

\* the first two lines of append_memory, with the entry put in front
append_memory_front(file, item, now) ==
    << Stamp(item, now) >> \o load_memory(file)

\* the first two lines of append_memory: history as it is about to be saved
append_memory(file, item, now) ==
    load_memory(file) \o << Stamp(item, now) >>

(***************************************************************************)
(* src/app.py: the two generation handlers and the history tab             *)
(***************************************************************************)
\* "CV"
TYPE_CV ==
    << "C", "V" >>

\* "Cover Letter"
TYPE_COVER_LETTER ==
    << "C", "o", "v", "e", "r", " ", "L", "e", "t", "t", "e", "r" >>

\* "Ada"
APPLICANT ==
    << "A", "d", "a" >>

\* "No history found."
MSG_NO_HISTORY ==
    << "N", "o", " ", "h", "i", "s", "t", "o", "r", "y", " ", "f",
       "o", "u", "n", "d", "." >>

\* no request was made
NoRequest == [api |-> "none"]

\* what the client of a provider puts in its request: the model name,
\* max_tokens and temperature as config has them (the local payload has no
\* max_tokens)
request_of(provider_, cfg) ==
    LET p == resolve_provider(provider_)
        max_tokens == IF "max_tokens" \in DOMAIN cfg THEN cfg.max_tokens ELSE 4000
    IN  IF p = CLAUDE_ANTHROPIC
        THEN [api |-> "messages.create",
              model |-> Or(cfg.claude_model, CLAUDE_SONNET_4),
              max_tokens |-> max_tokens]
        ELSE IF p = GPT_OPENAI
        THEN [api |-> "chat.completions.create",
              model |-> Or(cfg.openai_model, GPT_4_TURBO_PREVIEW),
              max_tokens |-> max_tokens]
        ELSE [api |-> "/api/generate", model |-> cfg.ollama_model]

\* cfg after "if provider_ == OLLAMA_LOCAL and ollama_model_: ..."
with_ollama_model(cfg, provider_, ollama_model_) ==
    IF provider_ = OLLAMA_LOCAL /\ Truthy(ollama_model_)
    THEN [cfg EXCEPT !.ollama_model = ollama_model_]
    ELSE cfg

\* generate_cv_local putting the provider in the entry's output
generate_cv_local_logging_model(provider_, ollama_model_, cfg, env, out) ==
    LET call == generate_with_llm(provider_, with_ollama_model(cfg, provider_, ollama_model_), env, out)
    IN  [handler |-> "generate_cv_local", call |-> call,
         item |-> [type |-> TYPE_CV, model |-> provider_,
                   inputs |-> [name |-> APPLICANT, job_role |-> job_role, skills |-> skills],
                   output |-> provider_],
         sent |-> IF call.reqs = 0 THEN NoRequest
                  ELSE request_of(provider_, with_ollama_model(cfg, provider_, ollama_model_))]

\* generate_cv_local from the provider call on: what generate_with_llm
\* gave and the item handed to append_memory
generate_cv_local(provider_, ollama_model_, cfg, env, out) ==
    LET call == generate_with_llm(provider_, with_ollama_model(cfg, provider_, ollama_model_), env, out)
    IN  [handler |-> "generate_cv_local", call |-> call,
         item |-> [type |-> TYPE_CV, model |-> provider_,
                   inputs |-> [name |-> APPLICANT, job_role |-> job_role, skills |-> skills],
                   output |-> call.value],
         sent |-> IF call.reqs = 0 THEN NoRequest
                  ELSE request_of(provider_, with_ollama_model(cfg, provider_, ollama_model_))]

generate_cover_local(provider_, ollama_model_, cfg, env, out) ==
    LET call == generate_with_llm(provider_, with_ollama_model(cfg, provider_, ollama_model_), env, out)
    IN  [handler |-> "generate_cover_local", call |-> call,
         item |-> [type |-> TYPE_COVER_LETTER, model |-> provider_,
                   inputs |-> [name |-> APPLICANT, company |-> company, position |-> position],
                   output |-> call.value],
         sent |-> IF call.reqs = 0 THEN NoRequest
                  ELSE request_of(provider_, with_ollama_model(cfg, provider_, ollama_model_))]

\* view_history: the message for an empty history, or for each of the last
\* 20 entries, newest first, its type, time and model
view_history(file) ==
    LET h == load_memory(file)
        n == Len(h)
        last == SubSeq(h, IF n > 20 THEN n - 19 ELSE 1, n)
    IN  IF h = << >> THEN [text |-> MSG_NO_HISTORY, lines |-> << >>]
        ELSE [text |-> << >>,
              lines |-> [i \in 1..Len(last) |->
                            LET e == last[Len(last) + 1 - i]
                            IN  << e.type, e.timestamp, e.model >>]]

(***************************************************************************)
(* Browser sessions generating documents against the one history file.    *)
(* A handler runs up to the read of append_memory in one step and its     *)
(* write in a second one; nothing it does before the read touches the     *)
(* history file.                                                           *)
(***************************************************************************)
Sessions == { 1, 2 }

\* generation calls started in one behaviour
MaxCalls == 2

\* the providers picked in the sessions, and what their backends do: the
\* local server answers with a text, the Anthropic client is built (when
\* there is a key) and answers with a text
SessionProviders == { OLLAMA_LOCAL, CLAUDE_ANTHROPIC }

SessionOutcomes(prov) ==
    IF prov = OLLAMA_LOCAL
    THEN { o \in OllamaOutcomes :
            o.exc = NoExc /\ o.status = 200 /\ o.body.response = TXT_CV }
    ELSE { o \in AnthropicOutcomes : o.exc = NoExc /\ o.blocks = << TXT_CV >> }

\* a config.json written by hand: a key and a max_tokens above the slider's range
EDITED_CONFIG == ObjectFile([anthropic_api_key |-> A_KEY, max_tokens |-> 100000])

\* an entry written before the behaviour starts
OLD_ENTRY ==
    Stamp([type |-> TYPE_CV, model |-> OLLAMA_LOCAL,
           inputs |-> [name |-> APPLICANT, job_role |-> << >>, skills |-> << >>],
           output |-> TXT_CV], 0)

Idle == [pc |-> "idle"]

NotViewed == [done |-> FALSE]

InitHistory ==
    /\ memory_file = NoFile
    /\ sess = [s \in Sessions |-> Idle]
    /\ hist = [before |-> << >>, calls |-> << >>, overlap |-> FALSE]
    /\ view = NotViewed
    /\ clock = 0

\* session s has run a handler up to the read of append_memory: cfg is what
\* load_config gave, g what the handler made of it
Begin(s, cfg, g) ==
    /\ config_file' = cfg.file
    /\ backup_file' = cfg.backup
    /\ loaded' = [done |-> TRUE, raised |-> cfg.raised, value |-> cfg.value,
                  found |-> config_file]
    /\ clock' = clock + 1
    /\ sess' = [sess EXCEPT ![s] =
                    IF cfg.raised \/ g.call.raised THEN Idle
                    ELSE [pc |-> "saving",
                          handler |-> g.handler,
                          result |-> g.call.value,
                          sent |-> g.sent,
                          read |-> memory_file.kind,
                          loaded |-> load_memory(memory_file),
                          history |-> append_memory(memory_file, g.item, clock + 1)]]
    /\ hist' = [hist EXCEPT !.overlap =
                    @ \/ \E t \in Sessions \ { s } : sess[t].pc = "saving"]
    /\ UNCHANGED << memory_file, view, edits >>

\* the Generate CV button of session s, up to the read of append_memory
GenerateCvLocal(s, provider_, ollama_model_, out, move) ==
    LET cfg == load_config(config_file, backup_file, move)
    IN  /\ sess[s] = Idle
        /\ clock < MaxCalls
        /\ Begin(s, cfg, generate_cv_local(provider_, ollama_model_,
                                           IF cfg.raised THEN DEFAULT_CONFIG ELSE cfg.value,
                                           environ, out))

\* the Generate Cover Letter button of session s, up to that read
GenerateCoverLocal(s, provider_, ollama_model_, out, move) ==
    LET cfg == load_config(config_file, backup_file, move)
    IN  /\ sess[s] = Idle
        /\ clock < MaxCalls
        /\ Begin(s, cfg, generate_cover_local(provider_, ollama_model_,
                                              IF cfg.raised THEN DEFAULT_CONFIG ELSE cfg.value,
                                              environ, out))

\* the write of append_memory in session s, after which the handler returns
SaveMemory(s, write) ==
    LET w == save_memory(memory_file, sess[s].history, write)
    IN  /\ sess[s].pc = "saving"
        /\ memory_file' = w.file
        /\ sess' = [sess EXCEPT ![s] = Idle]
        /\ hist' = [hist EXCEPT !.calls = Append(@,
                        [handler |-> sess[s].handler,
                         result |-> sess[s].result,
                         entry |-> sess[s].history[Len(sess[s].history)],
                         read |-> sess[s].read,
                         loaded |-> sess[s].loaded,
                         found |-> load_memory(memory_file),
                         left |-> load_memory(w.file),
                         write |-> write])]
        /\ view' = NotViewed
        /\ UNCHANGED << clock, configVars >>

\* the Refresh History button
ViewHistory ==
    /\ view' = [done |-> TRUE, shown |-> view_history(memory_file),
                found |-> memory_file]
    /\ UNCHANGED << memory_file, sess, hist, clock, configVars >>

(***************************************************************************)
(* Specifications                                                          *)
(***************************************************************************)
\* the provider client alone: every call is made with the credentials the
\* process was started with
Init ==
    /\ InitLLM
    /\ InitDiscovery
    /\ InitForm
    /\ InitExtract
    /\ InitConfigFile
    /\ InitHistory

Next ==
    \E prov \in Providers : \E out \in Outcomes(prov) :
            Generate(prov, out) /\ UNCHANGED << discoveryVars, formVars, extractVars, configVars, historyVars >>

Spec == Init /\ [][Next]_vars

\* model discovery alone; it reads no credential
InitDiscoveryOnly ==
    /\ config = [anthropic_api_key |-> None, openai_api_key |-> None]
    /\ environ = [ANTHROPIC_API_KEY |-> None, OPENAI_API_KEY |-> None]
    /\ provider = None
    /\ backend = NoBackend
    /\ result = NotCalled
    /\ InitDiscovery
    /\ InitForm
    /\ InitExtract
    /\ InitConfigFile
    /\ InitHistory

NextDiscovery ==
    \E http \in TagsOutcomes :
        GetOllamaModels(http) /\ UNCHANGED << llmVars, formVars, extractVars, configVars, historyVars >>

SpecDiscovery == InitDiscoveryOnly /\ [][NextDiscovery]_vars

\* the two calls of the client side by side: each step is one call, and the
\* record of the other kind of call is cleared
InitClient ==
    /\ config \in Configs
    /\ environ = [ANTHROPIC_API_KEY |-> None, OPENAI_API_KEY |-> None]
    /\ provider = None
    /\ backend = NoBackend
    /\ result = NotCalled
    /\ InitDiscovery
    /\ InitForm
    /\ InitExtract
    /\ InitConfigFile
    /\ InitHistory

otherThanClient == << formVars, extractVars, configVars, historyVars >>

NextClient ==
    \/ \E prov \in Providers : \E out \in Outcomes(prov) :
            /\ Generate(prov, out)
            /\ tags_backend' = NoTags
            /\ discovery' = NotCalled
            /\ UNCHANGED otherThanClient
    \/ \E http \in TagsOutcomes :
            /\ GetOllamaModels(http)
            /\ provider' = None
            /\ backend' = NoBackend
            /\ result' = NotCalled
            /\ UNCHANGED << config, environ, otherThanClient >>

SpecClient == InitClient /\ [][NextClient]_vars

\* the form and its auto-fill button alone
InitAutoFill ==
    /\ config = [anthropic_api_key |-> None, openai_api_key |-> None]
    /\ environ = [ANTHROPIC_API_KEY |-> None, OPENAI_API_KEY |-> None]
    /\ provider = None
    /\ backend = NoBackend
    /\ result = NotCalled
    /\ InitDiscovery
    /\ InitForm
    /\ InitExtract
    /\ InitConfigFile
    /\ InitHistory

NextAutoFill ==
    \/ \E jd \in JobDescs : EditJobDesc(jd) /\ UNCHANGED << llmVars, discoveryVars, extractVars, configVars, historyVars >>
    \/ \E v \in TypedNames : EditJobRole(v) /\ UNCHANGED << llmVars, discoveryVars, extractVars, configVars, historyVars >>
    \/ \E v \in TypedNames : EditCompany(v) /\ UNCHANGED << llmVars, discoveryVars, extractVars, configVars, historyVars >>
    \/ \E v \in TypedNames : EditPosition(v) /\ UNCHANGED << llmVars, discoveryVars, extractVars, configVars, historyVars >>
    \/ \E v \in TypedSkills : EditSkills(v) /\ UNCHANGED << llmVars, discoveryVars, extractVars, configVars, historyVars >>
    \/ AutoFillClick /\ UNCHANGED << llmVars, discoveryVars, extractVars, configVars, historyVars >>

SpecAutoFill == InitAutoFill /\ [][NextAutoFill]_vars

\* the extractor alone, applied once to the description it is given
InitExtractOnly ==
    /\ config = [anthropic_api_key |-> None, openai_api_key |-> None]
    /\ environ = [ANTHROPIC_API_KEY |-> None, OPENAI_API_KEY |-> None]
    /\ provider = None
    /\ backend = NoBackend
    /\ result = NotCalled
    /\ InitDiscovery
    /\ InitForm
    /\ description \in Descriptions
    /\ info = NotExtracted
    /\ InitConfigFile
    /\ InitHistory

NextExtract ==
    ExtractJobInfo /\ UNCHANGED << llmVars, discoveryVars, formVars, configVars, historyVars >>

SpecExtract == InitExtractOnly /\ [][NextExtract]_vars

\* the configuration file: loads, saves and edits from outside
InitConfig ==
    /\ config = [anthropic_api_key |-> None, openai_api_key |-> None]
    /\ environ \in Environs
    /\ provider = None
    /\ backend = NoBackend
    /\ result = NotCalled
    /\ InitDiscovery
    /\ InitForm
    /\ InitExtract
    /\ InitConfigFile
    /\ InitHistory

otherThanConfig == << llmVars, discoveryVars, formVars, extractVars, historyVars >>

NextConfig ==
    \/ \E move \in MoveOutcomes : LoadConfig(move) /\ UNCHANGED otherThanConfig
    \/ \E cfg \in SavedConfigs : \E write \in WriteOutcomes :
            SaveConfig(cfg, write) /\ UNCHANGED otherThanConfig
    \/ \E k \in DOMAIN DEFAULT_CONFIG : RemoveKey(k) /\ UNCHANGED otherThanConfig
    \/ \E file \in { ArrayFile, CorruptFile } :
            Overwrite(file) /\ UNCHANGED otherThanConfig

SpecConfig == InitConfig /\ [][NextConfig]_vars

\* two sessions generating against one history file and one config file
InitSessions ==
    /\ config = [anthropic_api_key |-> None, openai_api_key |-> None]
    /\ environ = [ANTHROPIC_API_KEY |-> None, OPENAI_API_KEY |-> None]
    /\ provider = None
    /\ backend = NoBackend
    /\ result = NotCalled
    /\ InitDiscovery
    /\ InitForm
    /\ InitExtract
    /\ config_file \in { NoFile, CorruptFile, EDITED_CONFIG }
    /\ backup_file = NoFile
    /\ loaded = NotLoaded
    /\ edits = 0
    /\ memory_file \in { NoFile, ListFile(<< OLD_ENTRY >>) }
    /\ sess = [s \in Sessions |-> Idle]
    /\ hist = [before |-> load_memory(memory_file), calls |-> << >>, overlap |-> FALSE]
    /\ view = NotViewed
    /\ clock = 0

otherThanSessions == << llmVars, discoveryVars, formVars, extractVars >>

NextSessions ==
    \/ \E s \in Sessions, prov \in SessionProviders, m \in { << >>, MISTRAL }, move \in MoveOutcomes :
          \E out \in SessionOutcomes(prov) :
            GenerateCvLocal(s, prov, m, out, move) /\ UNCHANGED otherThanSessions
    \/ \E s \in Sessions, prov \in SessionProviders, m \in { << >>, MISTRAL }, move \in MoveOutcomes :
          \E out \in SessionOutcomes(prov) :
            GenerateCoverLocal(s, prov, m, out, move) /\ UNCHANGED otherThanSessions
    \/ \E s \in Sessions, write \in WriteOutcomes :
            SaveMemory(s, write) /\ UNCHANGED otherThanSessions
    \/ ViewHistory /\ UNCHANGED otherThanSessions

SpecSessions == InitSessions /\ [][NextSessions]_vars

(***************************************************************************)
(* Properties of the provider client                                       *)
(***************************************************************************)
\* "Anthropic"
NAME_ANTHROPIC ==
    << "A", "n", "t", "h", "r", "o", "p", "i", "c" >>

\* "OpenAI"
NAME_OPENAI ==
    << "O", "p", "e", "n", "A", "I" >>

\* "API key not configured"
API_KEY_NOT_CONFIGURED ==
    << "A", "P", "I", " ", "k", "e", "y", " ", "n", "o", "t", " ",
       "c", "o", "n", "f", "i", "g", "u", "r", "e", "d" >>

\* "Unknown model choice"
UNKNOWN_MODEL_CHOICE ==
    << "U", "n", "k", "n", "o", "w", "n", " ", "m", "o", "d", "e",
       "l", " ", "c", "h", "o", "i", "c", "e" >>

\* "Error calling "
ERROR_CALLING ==
    << "E", "r", "r", "o", "r", " ", "c", "a", "l", "l", "i", "n",
       "g", " " >>

\* "Cannot connect"
CANNOT_CONNECT ==
    << "C", "a", "n", "n", "o", "t", " ", "c", "o", "n", "n", "e",
       "c", "t" >>

\* "No models found"
NO_MODELS_FOUND ==
    << "N", "o", " ", "m", "o", "d", "e", "l", "s", " ", "f", "o",
       "u", "n", "d" >>

\* the last call named a hosted provider whose credential is empty or absent
\* in the config and in the environment
AnthropicKeyMissing ==
    /\ provider = CLAUDE_ANTHROPIC
    /\ ~Truthy(config.anthropic_api_key)
    /\ ~Truthy(environ.ANTHROPIC_API_KEY)

OpenAIKeyMissing ==
    /\ provider = GPT_OPENAI
    /\ ~Truthy(config.openai_api_key)
    /\ ~Truthy(environ.OPENAI_API_KEY)

\* the returned value is the failure string naming `name`
IsKeyFailure(name) ==
    /\ ~result.raised
    /\ IsStr(result.value)
    /\ StartsWith(result.value, FAIL_PREFIX)
    /\ Contains(result.value, name \o << " " >> \o API_KEY_NOT_CONFIGURED)

\* C1: a hosted provider called with no credential in the config and none in
\* the environment returns the failure string naming that provider followed
\* by "API key not configured", and issues no request
C1_MissingKeyFailsWithoutRequest ==
    result.called =>
        /\ AnthropicKeyMissing => IsKeyFailure(NAME_ANTHROPIC) /\ result.reqs = 0
        /\ OpenAIKeyMissing => IsKeyFailure(NAME_OPENAI) /\ result.reqs = 0

C1_Witness ==
    /\ result.called
    /\ AnthropicKeyMissing
    /\ config.anthropic_api_key = << >>
    /\ environ.ANTHROPIC_API_KEY = None
    /\ backend.exc = NoExc
    /\ result.reqs = 0

\* the call ended with "Unknown model choice" and went through no call_*
IsUnknownChoice ==
    /\ ~result.raised
    /\ IsStr(result.value)
    /\ Contains(result.value, UNKNOWN_MODEL_CHOICE)
    /\ result.via = ""
    /\ result.reqs = 0

\* C2 as stated: every identifier outside the three known ones yields
\* "Unknown model choice" and no provider call
C2_AnyOtherIdentifierIsUnknown ==
    (result.called /\ provider \notin KnownProviders) => IsUnknownChoice

\* C2 as amended: every non-empty identifier outside the three known ones
\* yields "Unknown model choice" and no provider call (an empty or None
\* identifier is the local provider)
C2_NonEmptyOtherIdentifierIsUnknown ==
    (result.called /\ Truthy(provider) /\ provider \notin KnownProviders) => IsUnknownChoice

C2_Witness ==
    /\ result.called
    /\ provider = GEMINI
    /\ IsUnknownChoice

\* the provider the last call selected was contacted
Contacted ==
    /\ resolve_provider(provider) \in KnownProviders
    /\ ~AnthropicKeyMissing
    /\ ~OpenAIKeyMissing

\* the backend answered the last call with a timeout, a connection failure,
\* an HTTP error status, or a body that is not JSON or not of the JSON shape
\* of an answer
BackendError ==
    /\ Contacted
    /\ \/ backend.exc # NoExc
       \/ /\ resolve_provider(provider) = GPT_OPENAI
          /\ backend.n_choices = 0
       \/ /\ resolve_provider(provider) = OLLAMA_LOCAL
          /\ \/ backend.status >= 400
             \/ backend.body.json # "object"

\* the name f"Error calling <name>: " carries for the selected provider
ProviderName ==
    IF resolve_provider(provider) = CLAUDE_ANTHROPIC THEN << "C", "l", "a", "u", "d", "e" >>
    ELSE IF resolve_provider(provider) = GPT_OPENAI THEN NAME_OPENAI
    ELSE << "O", "l", "l", "a", "m", "a" >>

\* C3: generate_with_llm never raises and always returns a string; every
\* error outcome of the backend comes back as the failure
\* "Error calling <provider>: <message>"
C3_NeverRaisesAlwaysString ==
    result.called =>
        /\ ~result.raised
        /\ IsStr(result.value)
        /\ BackendError =>
              StartsWith(result.value,
                         FAIL_PREFIX \o ERROR_CALLING \o ProviderName \o << ":", " " >>)

\* a generation failed: no credential, a backend error, or an identifier
\* that is no provider
FailedGeneration ==
    \/ AnthropicKeyMissing
    \/ OpenAIKeyMissing
    \/ BackendError
    \/ resolve_provider(provider) \notin KnownProviders

\* C4: every failed generation, whatever its kind, is returned as a string
\* that begins with the failure marker
C4_EveryFailureBeginsWithMarker ==
    (result.called /\ FailedGeneration) =>
        /\ ~result.raised
        /\ IsStr(result.value)
        /\ StartsWith(result.value, FAIL_PREFIX)

(***************************************************************************)
(* Properties of model discovery                                           *)
(***************************************************************************)
\* the discovery request was answered 200 with a JSON object whose "models"
\* member is the empty array
EmptyModelsAnswer ==
    /\ discovery.called
    /\ tags_backend.exc = NoExc
    /\ tags_backend.status = 200
    /\ tags_backend.body.json = "object"
    /\ tags_backend.body.models_kind = "array"
    /\ tags_backend.body.models = << >>

\* C5: an empty "models" array gives the one-element list ["No models
\* found"], never the empty list, with a status that is not the success one
C5_EmptyModelsGivesPlaceholder ==
    EmptyModelsAnswer =>
        /\ discovery.models = << NO_MODELS_FOUND >>
        /\ ~StartsWith(discovery.status, << "U+2705" >>)

\* the discovery request failed at the transport with a connection failure
ConnectionFailure ==
    /\ tags_backend.exc # NoExc
    /\ tags_backend.exc.cls \in { "ConnectionError", "ConnectTimeout" }

\* the discovery failed in any other way: a read timeout, an HTTP error
\* status, a body that is not JSON or not an object, a "models" member that
\* is null, a model entry without a name
OtherDiscoveryFailure ==
    \/ tags_backend.exc # NoExc /\ ~ConnectionFailure
    \/ /\ tags_backend.exc = NoExc
       /\ \/ tags_backend.status >= 400
          \/ tags_backend.body.json # "object"
          \/ tags_backend.body.models_kind = "null"
          \/ \E i \in 1..Len(tags_backend.body.models) :
                ~tags_backend.body.models[i].has_name

\* C6: get_ollama_models never raises; a connection failure gives
\* ["Connection Error"] with a status containing "Cannot connect", every
\* other failure gives ["Error"] with the generic status, never the other way
C6_DiscoverySentinels ==
    discovery.called =>
        /\ ~discovery.raised
        /\ ConnectionFailure =>
              /\ discovery.models = << CONNECTION_ERROR >>
              /\ Contains(discovery.status, CANNOT_CONNECT)
        /\ OtherDiscoveryFailure =>
              /\ discovery.models = << ERROR_SENTINEL >>
              /\ ~Contains(discovery.status, CANNOT_CONNECT)
              /\ StartsWith(discovery.status, ERR_FETCHING)

C6_Witness ==
    /\ discovery.called
    /\ tags_backend.exc.cls = "ConnectionError"
    /\ discovery.models = << CONNECTION_ERROR >>

(***************************************************************************)
(* Properties of the auto-fill                                             *)
(***************************************************************************)
\* "Staff Engineer"
STAFF_ENGINEER ==
    << "S", "t", "a", "f", "f", " ", "E", "n", "g", "i", "n", "e",
       "e", "r" >>

\* "Acme Corp"
ACME_CORP ==
    << "A", "c", "m", "e", " ", "C", "o", "r", "p" >>

\* "- Go"
LINE_GO ==
    << "-", " ", "G", "o" >>

\* "- Distributed systems"
LINE_DISTRIBUTED ==
    << "-", " ", "D", "i", "s", "t", "r", "i", "b", "u", "t", "e",
       "d", " ", "s", "y", "s", "t", "e", "m", "s" >>

\* "--- Extracted from Job Description ---"
SEPARATOR_LINE ==
    << "-", "-", "-", " ", "E", "x", "t", "r", "a", "c", "t", "e",
       "d", " ", "f", "r", "o", "m", " ", "J", "o", "b", " ", "D",
       "e", "s", "c", "r", "i", "p", "t", "i", "o", "n", " ", "-",
       "-", "-" >>

\* a box that held cur took new from a call that had extracted ext: a
\* non-empty cur is kept, and the box changes only from empty to ext
KeptOrFilled(cur, new, ext) ==
    /\ Truthy(cur) => new = cur
    /\ new # cur => ~Truthy(cur) /\ new = ext

\* C7: an auto-fill call returns a non-empty job_role, company or position
\* unchanged, and writes an extracted value only into a box that was empty
C7_NonEmptyFieldsKept ==
    last_fill.filled =>
        /\ KeptOrFilled(last_fill.current.job_role, job_role, last_fill.extracted.job_role)
        /\ KeptOrFilled(last_fill.current.company, company, last_fill.extracted.company)
        /\ KeptOrFilled(last_fill.current.position, position, last_fill.extracted.position)

C7_Witness ==
    /\ last_fill.filled
    /\ last_fill.current.job_role = USER_ROLE
    /\ last_fill.extracted.job_role = STAFF_ENGINEER
    /\ job_role = USER_ROLE
    /\ last_fill.current.company = << >>
    /\ company = ACME_CORP

\* C8: with a non-empty extracted block, empty skills become the block and
\* non-empty skills are followed by the separator line and the block; with
\* nothing extracted the skills are unchanged
C8_SkillsMerge ==
    last_fill.filled =>
        LET cur == last_fill.current.skills
            ext == last_fill.extracted.skills
        IN  /\ (Truthy(last_fill.job_desc) /\ Truthy(ext) /\ ~Truthy(cur)) => skills = ext
            /\ (Truthy(last_fill.job_desc) /\ Truthy(ext) /\ Truthy(cur)) =>
                  /\ skills = cur \o << "\n", "\n" >> \o SEPARATOR_LINE \o << "\n" >> \o ext
                  /\ StartsWith(skills, cur)
            /\ ~(Truthy(last_fill.job_desc) /\ Truthy(ext)) => skills = cur

C8_Witness ==
    /\ last_fill.filled
    /\ last_fill.current.skills = USER_SKILLS
    /\ Truthy(last_fill.extracted.skills)
    /\ skills # USER_SKILLS

\* the block b after n calls that began on empty skills
RECURSIVE Accumulated(_, _)
Accumulated(b, n) ==
    IF n <= 1 THEN b ELSE Accumulated(b, n - 1) \o SKILLS_SEPARATOR \o b

\* the number of places of s where p occurs
Occurrences(s, p) ==
    Cardinality({ i \in 1..(Len(s) - Len(p) + 1) : SubSeq(s, i, i + Len(p) - 1) = p })

\* C9: n auto-fill calls in a row on the same job description, begun on
\* empty skills, leave the extracted block n times with n-1 separator lines
\* between, and job_role, company and position as the first call left them
C9_RepeatedFillAccumulates ==
    (run.n >= 1 /\ Truthy(job_desc) /\ Truthy(extracted_from[job_desc].skills)) =>
        /\ skills = Accumulated(extracted_from[job_desc].skills, run.n)
        /\ Occurrences(skills, SEPARATOR_LINE) = run.n - 1
        /\ job_role = run.first.job_role
        /\ company = run.first.company
        /\ position = run.first.position

C9_Witness ==
    /\ run.n >= 2
    /\ run.n = MaxFills
    /\ job_desc = JD_STAFF
    /\ Occurrences(skills, SEPARATOR_LINE) = run.n - 1

\* C10: the description "Position: Staff Engineer\nCompany: Acme Corp\n
\* Skills:\n- Go\n- Distributed systems\n" gives job_role and position
\* "Staff Engineer", company "Acme Corp" and a skills block with the lines
\* "- Go" and "- Distributed systems"
C10_StaffEngineerExample ==
    (last_fill.filled /\ last_fill.job_desc = JD_STAFF) =>
        LET got == last_fill.extracted
            block == Split(got.skills, << "\n" >>)
        IN  /\ got.job_role = STAFF_ENGINEER
            /\ got.position = STAFF_ENGINEER
            /\ got.company = ACME_CORP
            /\ \E i \in 1..Len(block) : block[i] = LINE_GO
            /\ \E i \in 1..Len(block) : block[i] = LINE_DISTRIBUTED

C10_Witness ==
    /\ last_fill.filled
    /\ last_fill.job_desc = JD_STAFF
    /\ last_fill.extracted.company = ACME_CORP

(***************************************************************************)
(* C11                                                                     *)
(***************************************************************************)
\* a description that is null, empty, or shorter than 30 characters once the
\* whitespace around it is removed
BelowThreshold(jd) == jd = None \/ jd = << >> \/ Len(Strip(jd)) < 30

\* one of the words the extractor looks for occurs in the text
CarriesMarker(jd) ==
    \/ Contains(Lower(jd), KW_ROLE)
    \/ Contains(Lower(jd), KW_COMPANY)
    \/ Contains(Lower(jd), KW_SKILLS)
    \/ Contains(Lower(jd), KW_AT)

AllNull ==
    [job_role |-> None, company |-> None, position |-> None, skills |-> None]

\* C11: for a job description that is empty or whose whitespace-stripped
\* length is below 30, the extractor returns all four fields null, whatever
\* markers the text contains
C11_ShortDescriptionGivesAllNull ==
    (info.done /\ BelowThreshold(description)) => info.value = AllNull

\* a text of 46 characters, 15 without its trailing blanks, with a marker
C11_Witness ==
    /\ info.done
    /\ description = LINE_ROLE \o << "\n" >> \o LINE_BLANK
    /\ BelowThreshold(description)
    /\ CarriesMarker(description)
    /\ info.value = AllNull

(***************************************************************************)
(* C12                                                                     *)
(***************************************************************************)
\* the four boxes as they stand
Boxes ==
    [job_role |-> job_role, company |-> company, position |-> position,
     skills |-> skills]

\* C12: with no job description (empty or null) or one below the length
\* threshold, the auto-fill gives back the caller's four values exactly as
\* given, whichever of them are empty
C12_NoDescriptionChangesNothing ==
    (last_fill.filled /\ BelowThreshold(last_fill.job_desc)) =>
        Boxes = last_fill.current

\* a description of 32 characters, 23 without its trailing blanks, filled
\* into a form with a typed role and the other boxes empty
C12_Witness ==
    /\ last_fill.filled
    /\ last_fill.job_desc = JD_PADDED
    /\ last_fill.current.job_role = USER_ROLE
    /\ last_fill.current.skills = << >>
    /\ Boxes = last_fill.current

(***************************************************************************)
(* C16, C17                                                                *)
(***************************************************************************)
DefaultKeys ==
    { "default_model", "claude_model", "openai_model", "ollama_model",
      "ollama_url", "anthropic_api_key", "openai_api_key", "max_tokens",
      "temperature" }

\* C16: after any sequence of saves, edits of the file from outside (keys
\* removed, content corrupted) and loads, every dictionary load_config
\* returns has every key of DEFAULT_CONFIG
C16_LoadedConfigHasEveryKey ==
    (loaded.done /\ ~loaded.raised) =>
        \A k \in DefaultKeys : k \in DOMAIN loaded.value

\* a load from a file whose object has lost "max_tokens" and one more key
C16_Witness ==
    /\ loaded.done
    /\ ~loaded.raised
    /\ loaded.found.kind = "object"
    /\ "max_tokens" \notin DOMAIN loaded.found.data
    /\ edits = 2
    /\ loaded.value.max_tokens = 4000

\* C17 as stated: no load_config call modifies, moves or removes config.json,
\* whether the file is absent, valid or corrupted
C17_LoadNeverTouchesFile ==
    loaded.done => config_file = loaded.found

\* what can be parsed into the JSON object load_config expects
Parseable(file) == file.kind = "object"

\* C17: load_config leaves an absent or a valid config.json as it is; a file
\* that exists and cannot be parsed is moved to config.bak.json, after which
\* config.json is gone, unless the move fails and the call raises
C17_LoadMovesOnlyUnparseableFile ==
    loaded.done =>
        IF loaded.found = NoFile \/ Parseable(loaded.found)
        THEN config_file = loaded.found /\ ~loaded.raised
        ELSE IF loaded.raised THEN config_file = loaded.found
        ELSE config_file = NoFile /\ backup_file = loaded.found

C17_Witness ==
    /\ loaded.done
    /\ ~loaded.raised
    /\ loaded.found = CorruptFile
    /\ config_file = NoFile
    /\ backup_file = CorruptFile

(***************************************************************************)
(* C13                                                                     *)
(***************************************************************************)
\* the entries conversation_history.json holds
StoredHistory ==
    IF memory_file.kind = "array" THEN memory_file.data ELSE << >>

\* the entries of the calls that returned, in the order they returned
EntriesOf(calls) == [i \in 1..Len(calls) |-> calls[i].entry]

Written(call) == call.write = "ok"

\* no session began a call while another one was between its read and its
\* write of the history file
SingleWriter == ~hist.overlap

TwoOverlappingCalls ==
    /\ hist.overlap
    /\ clock = 2
    /\ Len(hist.calls) = 2
    /\ \A i \in 1..2 : Written(hist.calls[i])

Holds(history, entry) == \E i \in 1..Len(history) : history[i] = entry

\* C14: when two sessions append concurrently, each reading the history
\* before the other has written it, the stored history ends up with only
\* one of the two new entries: that of the session that wrote last
C14_ConcurrentAppendLosesEntry ==
    TwoOverlappingCalls =>
        /\ ~Holds(StoredHistory, hist.calls[1].entry)
        /\ Holds(StoredHistory, hist.calls[2].entry)
        /\ Len(StoredHistory) = Len(hist.before) + 1

\* both sessions have returned, the history of one entry has two
C14_Witness ==
    /\ TwoOverlappingCalls
    /\ \A s \in Sessions : sess[s] = Idle
    /\ hist.before = << OLD_ENTRY >>
    /\ StoredHistory = << OLD_ENTRY, hist.calls[2].entry >>
    /\ hist.calls[1].entry # hist.calls[2].entry

(***************************************************************************)
(* C15                                                                     *)
(***************************************************************************)
\* the type a handler's entries carry
TypeOf(handler) ==
    IF handler = "generate_cv_local" THEN << "C", "V" >>
    ELSE << "C", "o", "v", "e", "r", " ", "L", "e", "t", "t", "e", "r" >>

\* the entry of a call that returned carries what the caller got, and the
\* type of the handler
EntryMatches(call) ==
    /\ call.entry.output = call.result
    /\ call.entry.type = TypeOf(call.handler)

\* C15 as stated: every generation call appends exactly one entry to the
\* stored history, with the output the caller got and the handler's type,
\* for failed generations too
C15_EveryCallAppendsOneEntry ==
    SingleWriter =>
        \A i \in 1..Len(hist.calls) :
            LET call == hist.calls[i]
            IN  call.left = call.found \o << call.entry >> /\ EntryMatches(call)

\* C15: every generation call that returns, failed generations too, hands
\* append_memory one entry with the output the caller got and the handler's
\* type; the entry is added to the stored history when the write of the
\* file succeeds, and not when it fails
C15_EveryCallAppendsOneEntryIfWritten ==
    SingleWriter =>
        \A i \in 1..Len(hist.calls) :
            LET call == hist.calls[i]
            IN  /\ EntryMatches(call)
                /\ Written(call) => call.left = call.found \o << call.entry >>
                /\ call.write = "refused" => call.left = call.found
                /\ call.write = "truncated" => call.left = << >>

\* a cover letter that failed for want of an API key, and its entry
C15_Witness ==
    /\ SingleWriter
    /\ Len(hist.calls) = 1
    /\ hist.calls[1].handler = "generate_cover_local"
    /\ Written(hist.calls[1])
    /\ StartsWith(hist.calls[1].result, << "U+274C" >>)
    /\ StoredHistory = hist.before \o << hist.calls[1].entry >>
    /\ hist.calls[1].entry.output = hist.calls[1].result

(***************************************************************************)
(* C18, C19                                                                *)
(***************************************************************************)
\* the call_* function of the provider the last call selected
SelectedClient ==
    IF resolve_provider(provider) = CLAUDE_ANTHROPIC THEN "call_claude"
    ELSE IF resolve_provider(provider) = GPT_OPENAI THEN "call_openai"
    ELSE IF resolve_provider(provider) = OLLAMA_LOCAL THEN "call_ollama"
    ELSE ""

\* C18: there are no retries: a generate_with_llm call issues at most one
\* request, to the backend of the selected provider and to no other, and a
\* get_ollama_models call at most one; a failed request is answered with the
\* failure, without a second request and without another provider
C18_NoRetryNoFallback ==
    /\ result.called =>
          /\ result.reqs <= 1
          /\ result.via = SelectedClient
          /\ Contacted => result.reqs = 1
          /\ BackendError =>
                StartsWith(result.value,
                           FAIL_PREFIX \o ERROR_CALLING \o ProviderName \o << ":", " " >>)
    /\ discovery.called => discovery.reqs <= 1

\* the local server refused the connection: one request, then the failure
C18_Witness ==
    /\ result.called
    /\ provider = OLLAMA_LOCAL
    /\ backend.exc # NoExc
    /\ BackendError
    /\ result.reqs = 1
    /\ result.via = "call_ollama"
    /\ StartsWith(result.value, FAIL_PREFIX)

\* the local server answered 200 with a JSON object without "response"
NoResponseField ==
    /\ result.called
    /\ resolve_provider(provider) = OLLAMA_LOCAL
    /\ backend.exc = NoExc
    /\ backend.status = 200
    /\ backend.body.json = "object"
    /\ ~backend.body.has_response

\* C19: for the local provider, a successful HTTP response whose JSON object
\* has no "response" field is a successful generation with the empty string
C19_MissingResponseFieldIsEmptySuccess ==
    NoResponseField => ~result.raised /\ result.value = << >>

C19_Witness ==
    /\ NoResponseField
    /\ provider = OLLAMA_LOCAL
    /\ result.value = << >>
    /\ result.reqs = 1

(***************************************************************************)
(* C20                                                                     *)
(***************************************************************************)
\* the first five lines of a text
FirstFive(jd) ==
    LET lines == Split(jd, << "\n" >>)
    IN  SubSeq(lines, 1, IF Len(lines) < 5 THEN Len(lines) ELSE 5)

\* the line carries "position:", "role:", "title:" or "job title:"
HasPositionMarker(line) ==
    \E marker \in { KW_POSITION, KW_ROLE, KW_TITLE, KW_JOB_TITLE } :
        Contains(Lower(line), marker)

\* at most 6 tokens, more than 10 characters, no "http" or "www" in front
LooksLikeTitle(line) ==
    /\ TokenCount(line) <= 6
    /\ Len(line) > 10
    /\ ~StartsWith(line, KW_HTTP)
    /\ ~StartsWith(line, KW_WWW)

\* C20: over the first 5 lines only, when one of them carries a position
\* marker the position is the trimmed text after the first colon of the
\* first such line; only when none does is it the first line that looks
\* like a title; lines after the fifth never contribute
C20_PositionMarkerBeforeHeuristic ==
    (info.done /\ ~BelowThreshold(description)) =>
        LET lines == FirstFive(description)
            marked == { i \in 1..Len(lines) : HasPositionMarker(lines[i]) }
            titles == { i \in 1..Len(lines) : LooksLikeTitle(lines[i]) }
        IN  IF marked # {}
            THEN info.value.position = Strip(AfterFirst(lines[Min(marked)], << ":" >>))
            ELSE IF titles # {}
            THEN info.value.position = Strip(lines[Min(titles)])
            ELSE info.value.position \in { << >>, None }

(***************************************************************************)
(* C21                                                                     *)
(***************************************************************************)
\* the first ten lines of a text
FirstTen(jd) ==
    LET lines == Split(jd, << "\n" >>)
    IN  SubSeq(lines, 1, IF Len(lines) < 10 THEN Len(lines) ELSE 10)

\* the line carries "company:"
HasCompanyMarker(line) == Contains(Lower(line), KW_COMPANY)

\* the line carries " at " and has fewer than 10 tokens
LooksLikeByline(line) ==
    Contains(Lower(line), KW_AT) /\ TokenCount(line) < 10

\* the text behind the first " at " of a line
AfterAt(line) ==
    SubSeq(line, Find(Lower(line), KW_AT) + Len(KW_AT), Len(line))

\* C21: over the first 10 lines only, when one of them carries "company:"
\* the company is the trimmed text after the colon of the first such line;
\* only when none does is it the trimmed text after " at " of the first line
\* that looks like a byline; lines after the tenth never contribute
C21_CompanyMarkerBeforeByline ==
    (info.done /\ ~BelowThreshold(description)) =>
        LET lines == FirstTen(description)
            marked == { i \in 1..Len(lines) : HasCompanyMarker(lines[i]) }
            bylines == { i \in 1..Len(lines) : LooksLikeByline(lines[i]) }
        IN  IF marked # {}
            THEN info.value.company = Strip(AfterFirst(lines[Min(marked)], << ":" >>))
            ELSE IF bylines # {}
            THEN info.value.company = Strip(AfterAt(lines[Min(bylines)]))
            ELSE info.value.company \in { << >>, None }

(***************************************************************************)
(* C22                                                                     *)
(***************************************************************************)
\* the marker phrases of the skills block, highest priority first
MarkerPriority ==
    << KW_REQUIRED_SKILLS, KW_SKILLS, KW_REQUIREMENTS, KW_QUALIFICATIONS,
       KW_TECHNICAL_SKILLS, KW_MUST_HAVE >>

\* the places in the priority list of the phrases occurring in a text
Occurring(jd) ==
    { n \in 1..Len(MarkerPriority) : Contains(Lower(jd), MarkerPriority[n]) }

\* a phrase of lower priority occurs in front of the one of highest priority
LowerPriorityFirst(jd) ==
    /\ jd # None
    /\ Occurring(jd) # {}
    /\ \E n \in Occurring(jd) :
           Find(Lower(jd), MarkerPriority[n])
               < Find(Lower(jd), MarkerPriority[Min(Occurring(jd))])

\* C22: the skills block is anchored at the first occurrence of the phrase
\* of highest priority among those occurring anywhere in the text, also when
\* a phrase of lower priority occurs earlier
C22_HighestPriorityMarkerAnchors ==
    (info.done /\ ~BelowThreshold(description) /\ Occurring(description) # {}) =>
        info.value.skills =
            skills_block(description, MarkerPriority[Min(Occurring(description))])

C22_Witness ==
    /\ info.done
    /\ ~BelowThreshold(description)
    /\ LowerPriorityFirst(description)
    /\ info.value.skills =
           skills_block(description, MarkerPriority[Min(Occurring(description))])
    /\ \E n \in Occurring(description) :
           /\ Find(Lower(description), MarkerPriority[n])
                  < Find(Lower(description), MarkerPriority[Min(Occurring(description))])
           /\ info.value.skills # skills_block(description, MarkerPriority[n])

(***************************************************************************)
(* C23                                                                     *)
(***************************************************************************)
\* where the phrase of highest priority first occurs, counted from 1
AnchorOf(jd) == Find(Lower(jd), MarkerPriority[Min(Occurring(jd))])

\* the 500 characters from the anchor on, as lines
WindowLines(jd) ==
    LET last == AnchorOf(jd) + 499
    IN  Split(SubSeq(jd, AnchorOf(jd), IF last < Len(jd) THEN last ELSE Len(jd)),
              << "\n" >>)

\* the lines of a block
BlockLines(block) == IF block = << >> THEN << >> ELSE Split(block, << "\n" >>)

\* xs is ys with some members left out, from member j of ys on
RECURSIVE IsSubsequence(_, _, _)
IsSubsequence(xs, ys, j) ==
    IF xs = << >> THEN TRUE
    ELSE IF j > Len(ys) THEN FALSE
    ELSE IF xs[1] = ys[j] THEN IsSubsequence(Tail(xs), ys, j + 1)
    ELSE IsSubsequence(xs, ys, j + 1)

\* C23: the skills block has at most 7 lines, each non-blank and trimmed;
\* they are, in their order, trimmed lines of the 500 characters starting at
\* the marker, the marker line itself (with what follows the marker on it)
\* left out
C23_BlockFromWindowAfterMarkerLine ==
    (info.done /\ ~BelowThreshold(description) /\ Occurring(description) # {}) =>
        LET block == BlockLines(info.value.skills)
            window == WindowLines(description)
        IN  /\ Len(block) <= 7
            /\ \A i \in 1..Len(block) :
                   block[i] # << >> /\ block[i] = Strip(block[i])
            /\ IsSubsequence(block, [i \in 1..Len(window) |-> Strip(window[i])], 2)
            /\ info.value.skills = Join(block, << "\n" >>)

\* seven lines kept of more than seven that follow the marker line
C23_SevenOfMore ==
    /\ info.done
    /\ ~BelowThreshold(description)
    /\ Occurring(description) # {}
    /\ Len(BlockLines(info.value.skills)) = 7
    /\ Len(WindowLines(description)) > 8

\* the text goes on behind the 500 characters and the last line is cut there
C23_Witness ==
    /\ info.done
    /\ ~BelowThreshold(description)
    /\ Occurring(description) # {}
    /\ Len(description) > AnchorOf(description) + 499
    /\ LET block == BlockLines(info.value.skills)
           lines == Split(description, << "\n" >>)
       IN  /\ Len(block) >= 2
           /\ \A i \in 1..Len(lines) : Strip(lines[i]) # block[Len(block)]

(***************************************************************************)
(* C24                                                                     *)
(***************************************************************************)
\* no line of the first five carries a position marker or looks like a title
NoPositionMatch(jd) ==
    \A i \in 1..Len(FirstFive(jd)) :
        ~HasPositionMarker(FirstFive(jd)[i]) /\ ~LooksLikeTitle(FirstFive(jd)[i])

\* no line of the first ten carries "company:" or looks like a byline
NoCompanyMatch(jd) ==
    \A i \in 1..Len(FirstTen(jd)) :
        ~HasCompanyMarker(FirstTen(jd)[i]) /\ ~LooksLikeByline(FirstTen(jd)[i])

\* C24: for a description of 30 characters or more, a field for which no
\* marker or heuristic matches is returned as null, whatever the other
\* fields are
C24_UnmatchedFieldIsNull ==
    (info.done /\ ~BelowThreshold(description)) =>
        /\ NoPositionMatch(description) =>
               info.value.position = None /\ info.value.job_role = None
        /\ NoCompanyMatch(description) => info.value.company = None
        /\ Occurring(description) = {} => info.value.skills = None

(***************************************************************************)
(* C25                                                                     *)
(***************************************************************************)
\* session s has made a request to a hosted provider
SentToHosted(s) ==
    /\ sess[s].pc = "saving"
    /\ sess[s].sent.api \in { "messages.create", "chat.completions.create" }

\* C25: the max_tokens sent to a hosted provider is within 1000..8000, the
\* range of the slider, whatever value the configuration file holds
C25_ForwardedMaxTokensInRange ==
    \A s \in Sessions :
        SentToHosted(s) =>
            sess[s].sent.max_tokens >= 1000 /\ sess[s].sent.max_tokens <= 8000

(***************************************************************************)
(* C26                                                                     *)
(***************************************************************************)
\* C26: in every result of the extractor job_role and position are equal:
\* both null, both empty or the same text
C26_JobRoleEqualsPosition ==
    info.done => info.value.job_role = info.value.position

\* a position taken from behind a marker, and the same text as job_role
C26_Witness ==
    /\ info.done
    /\ ~BelowThreshold(description)
    /\ HasPositionMarker(FirstFive(description)[1])
    /\ info.value.position = Strip(AfterFirst(FirstFive(description)[1], << ":" >>))
    /\ info.value.position # Strip(FirstFive(description)[1])
    /\ info.value.job_role = info.value.position

(***************************************************************************)
(* C27                                                                     *)
(***************************************************************************)
\* the last call was made with an empty or null provider identifier
NoProviderGiven == result.called /\ provider \in { << >>, None }

\* C27: a call with an empty or null provider identifier goes through the
\* local provider's client, issues its request, and gives what the call
\* with "Ollama (Local)" gives for the same config and the same answer of
\* the local server
C27_NoProviderMeansLocal ==
    NoProviderGiven =>
        /\ result.via = "call_ollama"
        /\ result.reqs = 1
        /\ backend \in OllamaOutcomes
        /\ result = Called(generate_with_llm(OLLAMA_LOCAL, config, environ, backend))

\* the local server's text came back for the empty identifier
C27_Witness ==
    /\ NoProviderGiven
    /\ provider = << >>
    /\ result.via = "call_ollama"
    /\ result.reqs = 1
    /\ ~result.raised
    /\ result.value = TXT_CV

(***************************************************************************)
(* C28                                                                     *)
(***************************************************************************)
\* C28 as stated: no generation call changes config.json or its backup
C28_GenerationLeavesConfigFiles ==
    [][config_file' = config_file /\ backup_file' = backup_file]_vars

\* session s sent the model name picked in the form to the local server
Overridden(s) ==
    /\ sess[s].pc = "saving"
    /\ sess[s].sent = [api |-> "/api/generate", model |-> MISTRAL]

\* C28: a generation call writes no configuration: the local model name
\* picked in the form is in the request only, and load_config after the call
\* returns the values the call itself loaded; the one change the call can
\* make to the files is the move of a config.json that cannot be parsed to
\* config.bak.json
C28_GenerationWritesNoConfig ==
    loaded.done =>
        /\ \/ config_file = loaded.found /\ (loaded.raised => ~Parseable(loaded.found))
           \/ /\ loaded.found # NoFile
              /\ ~Parseable(loaded.found)
              /\ ~loaded.raised
              /\ config_file = NoFile
              /\ backup_file = loaded.found
        /\ ~loaded.raised =>
               \A move \in MoveOutcomes :
                   load_config(config_file, backup_file, move)
                       = Loaded(FALSE, loaded.value, config_file, backup_file)

C28_Witness ==
    /\ loaded.done
    /\ loaded.found = EDITED_CONFIG
    /\ config_file = EDITED_CONFIG
    /\ \E s \in Sessions : Overridden(s)
    /\ loaded.value.ollama_model = LLAMA32
    /\ load_config(config_file, backup_file, "ok").value.ollama_model = LLAMA32

(***************************************************************************)
(* C29                                                                     *)
(***************************************************************************)
\* the call read a history file that exists and cannot be parsed
ReadUnparseable(call) == call.read = "corrupt"

C30_FailedWriteLeavesHistory ==
    \A i \in 1..Len(hist.calls) :
        LET call == hist.calls[i]
        IN  ~Written(call) =>
                /\ call.result = call.entry.output
                /\ call.left = call.found

====
